---------------------------- MODULE Spec2Model ----------------------------
(***************************************************************************)
(* A model of GazeDataManager (src/js/gaze-data-manager.js): the sample    *)
(* buffer with its rolling trim, the real-time velocity, the return-sweep  *)
(* detector with its guards, the trigger reset operations and the          *)
(* deferred reading-speed update.                                          *)
(*                                                                         *)
(* JavaScript values.  A value that can be a number, NaN, undefined or     *)
(* null is a record [n, d]: d >= 1 is the rational n/d in lowest terms,    *)
(* d = 0 is NaN (n = 0), undefined (n = 1) or null (n = 2).  Arithmetic is *)
(* exact rational arithmetic; the doubles of the code agree with it on     *)
(* every comparison the model's input sets produce (the inputs are small   *)
(* integers, so distinct quotients are far more than one ulp apart).       *)
(***************************************************************************)
EXTENDS Integers, Sequences, FiniteSets, TLC

\* ------------------------------------------------------------------ values

NaN == [n |-> 0, d |-> 0]
Undefined == [n |-> 1, d |-> 0]
Null == [n |-> 2, d |-> 0]

Abs(i) == IF i < 0 THEN -i ELSE i

RECURSIVE GCD(_, _)
GCD(a, b) == IF b = 0 THEN a ELSE GCD(b, a % b)

\* The rational n/d (d # 0) in lowest terms with a positive denominator.
Rat(n, d) ==
    LET s == IF d < 0 THEN -1 ELSE 1
        g == GCD(Abs(n), Abs(d))
    IN  [n |-> (s * n) \div g, d |-> (s * d) \div g]

Num(i) == [n |-> i, d |-> 1]

IsFinite(v) == v.d > 0
\* typeof v === 'number' (NaN is a number).
IsNumber(v) == v.d > 0 \/ v = NaN
\* ToNumber: undefined -> NaN, null -> 0.
ToNum(v) == IF v = Undefined THEN NaN ELSE IF v = Null THEN Num(0) ELSE v

NAdd(a, b) ==
    LET p == ToNum(a)
        q == ToNum(b)
    IN  IF ~IsFinite(p) \/ ~IsFinite(q) THEN NaN
        ELSE Rat(p.n * q.d + q.n * p.d, p.d * q.d)

NSub(a, b) ==
    LET p == ToNum(a)
        q == ToNum(b)
    IN  IF ~IsFinite(p) \/ ~IsFinite(q) THEN NaN
        ELSE Rat(p.n * q.d - q.n * p.d, p.d * q.d)

NMul(a, b) ==
    LET p == ToNum(a)
        q == ToNum(b)
    IN  IF ~IsFinite(p) \/ ~IsFinite(q) THEN NaN
        ELSE Rat(p.n * q.n, p.d * q.d)

\* a / b; a quotient by zero is non-finite in the code (Infinity or NaN) and
\* is NaN here.
NDiv(a, b) ==
    LET p == ToNum(a)
        q == ToNum(b)
    IN  IF ~IsFinite(p) \/ ~IsFinite(q) \/ q.n = 0 THEN NaN
        ELSE Rat(p.n * q.d, p.d * q.n)

\* p < q for finite rationals, by integer parts and then the reciprocals of
\* the fractional parts, so that no product is formed.
RECURSIVE RatLt(_, _)
RatLt(p, q) ==
    LET fp == p.n \div p.d
        fq == q.n \div q.d
        rp == p.n % p.d
        rq == q.n % q.d
    IN  IF fp # fq THEN fp < fq
        ELSE IF rq = 0 THEN FALSE
        ELSE IF rp = 0 THEN TRUE
        ELSE RatLt([n |-> q.d, d |-> rq], [n |-> p.d, d |-> rp])

\* The relational operators of the code: every comparison with NaN (or
\* undefined) is false.
NLt(a, b) ==
    LET p == ToNum(a)
        q == ToNum(b)
    IN  IsFinite(p) /\ IsFinite(q) /\ RatLt(p, q)

NGt(a, b) == NLt(b, a)

NGe(a, b) ==
    LET p == ToNum(a)
        q == ToNum(b)
    IN  IsFinite(p) /\ IsFinite(q) /\ ~RatLt(p, q)

NLe(a, b) == NGe(b, a)

\* Truthiness of a number-or-absent value: 0, NaN, undefined, null are falsy.
Truthy(v) == IsFinite(v) /\ v.n # 0

\* a || b
OrElse(a, b) == IF Truthy(a) THEN a ELSE b

Max(a, b) == IF a > b THEN a ELSE b


\* ----------------------------------------------------------- double values

(***************************************************************************)
(* Where a claim is about the exact number the code computes, the number   *)
(* is an IEEE-754 double: m * 2^e with a 53-bit significand m, held as a   *)
(* natural number in limbs of 15 bits, least significant first (<<>> is    *)
(* 0).  Every operation rounds its exact result to nearest, ties to even,  *)
(* as the code's +, * and / do.  The values are non-negative and in the    *)
(* normal range.                                                           *)
(***************************************************************************)
Base == 2 ^ 15

Limb(a, i) == IF i <= Len(a) THEN a[i] ELSE 0

Zeros(n) == [i \in 1..n |-> 0]

RECURSIVE BNorm(_)
BNorm(a) ==
    IF a = <<>> THEN a
    ELSE IF a[Len(a)] = 0 THEN BNorm(SubSeq(a, 1, Len(a) - 1)) ELSE a

\* The natural number i < 2^31 in limbs, and back.
BFromInt(i) == BNorm(<<i % Base, (i \div Base) % Base, i \div (Base * Base)>>)
BToInt(a) == Limb(a, 1) + Base * Limb(a, 2) + Base * Base * Limb(a, 3)

RECURSIVE BAddC(_, _, _, _)
BAddC(a, b, i, c) ==
    IF i > Len(a) /\ i > Len(b) THEN IF c = 0 THEN <<>> ELSE <<c>>
    ELSE LET s == Limb(a, i) + Limb(b, i) + c
         IN  <<s % Base>> \o BAddC(a, b, i + 1, s \div Base)

BAdd(a, b) == BNorm(BAddC(a, b, 1, 0))

\* a - b for a >= b
RECURSIVE BSubC(_, _, _, _)
BSubC(a, b, i, borrow) ==
    IF i > Len(a) THEN <<>>
    ELSE LET s == a[i] - Limb(b, i) - borrow
         IN  <<(s + Base) % Base>>
               \o BSubC(a, b, i + 1, IF s < 0 THEN 1 ELSE 0)

BSub(a, b) == BNorm(BSubC(a, b, 1, 0))

RECURSIVE BLtAt(_, _, _)
BLtAt(a, b, i) ==
    IF i = 0 THEN FALSE
    ELSE IF a[i] # b[i] THEN a[i] < b[i] ELSE BLtAt(a, b, i - 1)

BLt(a, b) == IF Len(a) # Len(b) THEN Len(a) < Len(b) ELSE BLtAt(a, b, Len(a))

\* a * k for a limb k
RECURSIVE BMulSmallC(_, _, _, _)
BMulSmallC(a, k, i, c) ==
    IF i > Len(a) THEN IF c = 0 THEN <<>> ELSE <<c>>
    ELSE LET p == a[i] * k + c
         IN  <<p % Base>> \o BMulSmallC(a, k, i + 1, p \div Base)

BMulSmall(a, k) == IF k = 0 THEN <<>> ELSE BMulSmallC(a, k, 1, 0)

RECURSIVE BMulFrom(_, _, _)
BMulFrom(a, b, j) ==
    IF j > Len(b) THEN <<>>
    ELSE BAdd(IF b[j] = 0 THEN <<>> ELSE Zeros(j - 1) \o BMulSmall(a, b[j]),
              BMulFrom(a, b, j + 1))

BMul(a, b) == BMulFrom(a, b, 1)

\* a * 2^n and floor(a / 2^n)
BShl(a, n) ==
    IF a = <<>> THEN a ELSE Zeros(n \div 15) \o BMulSmall(a, 2 ^ (n % 15))

BShr(a, n) ==
    LET w == n \div 15
        k == 2 ^ (n % 15)
        t == IF w >= Len(a) THEN <<>> ELSE SubSeq(a, w + 1, Len(a))
    IN  BNorm([i \in 1..Len(t) |->
                 (t[i] \div k) + (Limb(t, i + 1) % k) * (Base \div k)])

RECURSIVE BitLenSmall(_)
BitLenSmall(v) == IF v = 0 THEN 0 ELSE 1 + BitLenSmall(v \div 2)

\* The number of significant bits of a.
BBits(a) == IF a = <<>> THEN 0 ELSE 15 * (Len(a) - 1) + BitLenSmall(a[Len(a)])

BOdd(a) == a # <<>> /\ a[1] % 2 = 1

\* One step of long division: bit i of n (0-based) is brought down into
\* the remainder, and the divisor is subtracted if it fits.
BDivBit(n, d, i, st) ==
    LET bit == (n[i \div 15 + 1] \div 2 ^ (i % 15)) % 2
        r2 == BAdd(BMulSmall(st.r, 2), IF bit = 1 THEN <<1>> ELSE <<>>)
    IN  IF BLt(r2, d)
        THEN [q |-> BMulSmall(st.q, 2), r |-> r2]
        ELSE [q |-> BAdd(BMulSmall(st.q, 2), <<1>>), r |-> BSub(r2, d)]

\* Long division over the bits hi down to lo of n (hi >= lo), the upper
\* half of the range first; st holds the quotient q and the remainder r so
\* far.
RECURSIVE BDivRange(_, _, _, _, _)
BDivRange(n, d, hi, lo, st) ==
    IF hi = lo THEN BDivBit(n, d, hi, st)
    ELSE LET mid == (hi + lo + 1) \div 2
         IN  CHOOSE res \in {BDivRange(n, d, mid - 1, lo, nx) :
                               nx \in {BDivRange(n, d, hi, mid, st)}} : TRUE

\* floor(n / d) and n mod d, for n > 0 and d > 0
BDivMod(n, d) ==
    CHOOSE res \in {BDivRange(nv, dv, BBits(nv) - 1, 0, [q |-> <<>>, r |-> <<>>]) :
                      nv \in {n}, dv \in {d}} : TRUE

DZero == [m |-> <<>>, e |-> 0]

\* The double nearest to (n + s) * 2^e, where s is a positive amount below
\* 1 if sticky and 0 otherwise; ties go to the even significand.
DRound(n, e, sticky) ==
    IF n = <<>> THEN DZero
    ELSE LET len == BBits(n)
         IN  IF len <= 53
             THEN [m |-> BShl(n, 53 - len), e |-> e - (53 - len)]
             ELSE LET s == len - 53
                      q == BShr(n, s)
                      r == BSub(n, BShl(q, s))
                      half == BShl(<<1>>, s - 1)
                      up == \/ BLt(half, r)
                            \/ r = half /\ (sticky \/ BOdd(q))
                      q2 == IF up THEN BAdd(q, <<1>>) ELSE q
                  IN  IF BBits(q2) > 53
                      THEN [m |-> BShr(q2, 1), e |-> e + s + 1]
                      ELSE [m |-> q2, e |-> e + s]

\* The double of the natural number i < 2^31.
DFromInt(i) == DRound(BFromInt(i), 0, FALSE)

\* a * b
DMul(a, b) ==
    IF a.m = <<>> \/ b.m = <<>> THEN DZero
    ELSE DRound(BMul(a.m, b.m), a.e + b.e, FALSE)

\* a + b
DAdd(a, b) ==
    IF a.m = <<>> THEN b
    ELSE IF b.m = <<>> THEN a
    ELSE LET e == IF a.e < b.e THEN a.e ELSE b.e
         IN  DRound(BAdd(BShl(a.m, a.e - e), BShl(b.m, b.e - e)), e, FALSE)

\* a / b for b # 0
DDiv(a, b) ==
    IF a.m = <<>> THEN DZero
    ELSE \* the quotient of the significands to 55 or 56 bits
         LET qr == BDivMod(BShl(a.m, 55), b.m)
         IN  DRound(qr.q, a.e - b.e - 55, qr.r # <<>>)

\* Math.round(v): floor(v + 0.5), for v below 2^31.
DRoundToInt(v) ==
    IF v.m = <<>> THEN 0
    ELSE IF v.e >= 0 THEN BToInt(BShl(v.m, v.e))
    ELSE BToInt(BShr(BAdd(v.m, BShl(<<1>>, (0 - v.e) - 1)), 0 - v.e))

\* -------------------------------------------------------- program constants

\* detectRealtimeReturnSweep needs this many buffered samples.
MIN_SAMPLES == 5
\* Refractory cooldown after a fired event, ms.
COOLDOWN_MS == 500
\* Largest distance between position peak and velocity valley, ms.
CASCADE_WINDOW_MS == 600
\* Lifetime of a pending event, ms.
PENDING_TTL_MS == 1000
\* Shortest duration the speed update accepts, ms.
MIN_DURATION_MS == 100
\* Backward-scan cap of the speed update, samples.
SCAN_CAP == 800
MS_PER_MINUTE == 60000

\* ------------------------------------------------------------------ bounds

\* this.MAX_BUFFER_SIZE, 9000 in the code, scaled down; the trim count is
\* computed from it as the code computes it.
MAX_BUFFER_SIZE == 10
\* Samples ingested in one behaviour.
MaxSamples == 7
\* Samples ingested in one behaviour of the buffer specification.
MaxLongSamples == 12
\* The longest stream of the fault specification.
MaxFaultSamples == 6
\* The longest stream of the clock specification.
MaxClockSamples == 5
\* The longest stream of the context specification.
MaxContextSamples == 3
\* The longest stream of the gap specification.
MaxGapSamples == 4
\* The longest stream of the smoothing specification.
MaxSmoothSamples == 7
\* The longest stream of the rewind specification.
MaxRewindSamples == 7
\* The longest stream of the mixed specification.
MaxMixedSamples == 6
\* The longest stream of the movement specification.
MaxMovingSamples == 5
\* The calibration points of a run: the status text shows pointCount of 1.
MaxPoints == 1
\* The number of uploadToCloud calls that are suspended or have pushed a chunk.
MaxUploads == 2

\* ------------------------------------------------------------------- state

VARIABLES
    data,                 \* this.data: the sample buffer
    firstTimestamp,       \* this.firstTimestamp: null or the time origin
    context,              \* this.context
    lastTriggerTime,      \* this.lastTriggerTime
    lastPosPeakTime,      \* this.lastPosPeakTime
    firstContentTime,     \* this.firstContentTime: null or a time
    maxLineIndexReached,  \* this.maxLineIndexReached
    pangLog,              \* this.pangLog: the per-unit event log
    wpm,                  \* this.wpm
    validWordSum,         \* this.validWordSum
    validTimeSum,         \* this.validTimeSum
    lastRSTime,           \* this.lastRSTime
    lastRSLine,           \* this.lastRSLine
    lastUploadedIndex,    \* this.lastUploadedIndex
    wpmData,              \* this.wpmData: the speed log
    searchStartIndex,     \* this.searchStartIndex
    lastPreprocessIndex,  \* this.lastPreprocessIndex
    pendingReturnSweep,   \* this.pendingReturnSweep
    pangCountInPara,      \* this.pangCountInPara
    prevRSTime,           \* this._prevRSTime
    timers,               \* the scheduled _calcWPMForLine calls, in order
    clock,                \* Date.now() at the latest processGaze call
    ingested,             \* number of processGaze calls so far
    det,                  \* what detectRealtimeReturnSweep did in the step just
                          \* taken ("none": the step was no processGaze call)
    allFired,             \* every event logged since construction or reset
    uploads,              \* the uploadToCloud calls suspended at an await
    chunks,               \* the chunks pushed to the database, in order
    calibration           \* the CalibrationManager: this.state, its timers
                          \* and the calls of ctx.onCalibrationFinish

bufVars == <<data, lastUploadedIndex, lastPreprocessIndex, searchStartIndex>>
originVars == <<firstTimestamp, clock, ingested>>
guardVars == <<lastTriggerTime, lastPosPeakTime, firstContentTime,
               maxLineIndexReached, pendingReturnSweep>>
eventVars == <<pangLog, lastRSTime, lastRSLine, pangCountInPara, timers>>
speedVars == <<wpm, validWordSum, validTimeSum, wpmData, prevRSTime>>
uploadVars == <<uploads, chunks>>
gazeVars == <<bufVars, originVars, context, guardVars, eventVars, speedVars,
              det, allFired, uploadVars>>

vars == <<bufVars, originVars, context, guardVars, eventVars, speedVars, det,
          allFired, uploads, chunks, calibration>>

\* this.prevLineIndex is read by processGaze and assigned nowhere.
prevLineIndex == Undefined

\* No pending event: the field is absent after construction and null after
\* reset and resetTriggers.
NoPending(k) == [kind |-> k, t |-> 0, vx |-> Undefined]

\* The record of a detectRealtimeReturnSweep call that did not reach the
\* cascade check.  result: the return path; peak, valley: the candidates of
\* the call; sincePeak: timeSincePeak; v1, line, t: the values the call read;
\* trimmed: the number of samples the processGaze call trimmed.
NoDet(r) == [result |-> r, peak |-> FALSE, valley |-> FALSE, sincePeak |-> 0,
             v1 |-> Num(0), line |-> Undefined, t |-> 0, trimmed |-> 0]

\* The CalibrationManager after construction.  running, isFinishing,
\* pointCount, progress: this.state; progress is in hundredths.
\* watchdogTimer, safetyTimer: whether the field holds a timer handle (the
\* safety handle is kept when its timer has fired).  pending: the timers set
\* and neither fired nor cleared, each with the time left in ms.
\* finishCalls: the calls of ctx.onCalibrationFinish.  sdkFinished: the
\* finish callback has been called.
NewCalibrationManager ==
    [running |-> FALSE, isFinishing |-> FALSE, pointCount |-> 0,
     progress |-> 0, watchdogTimer |-> FALSE, safetyTimer |-> FALSE,
     pending |-> {}, finishCalls |-> 0, sdkFinished |-> FALSE]

Init ==
    /\ data = <<>>
    /\ firstTimestamp = Null
    /\ context = [lineIndex |-> Undefined, paraIndex |-> Undefined,
                  wordIndex |-> Undefined]
    /\ lastTriggerTime = 0
    /\ lastPosPeakTime = 0
    /\ firstContentTime = Null
    /\ maxLineIndexReached = -1
    /\ pangLog = <<>>
    /\ wpm = 0
    /\ validWordSum = 0
    /\ validTimeSum = 0
    /\ lastRSTime = 0
    /\ lastRSLine = -1
    /\ lastUploadedIndex = 0
    /\ wpmData = <<>>
    /\ searchStartIndex = 0
    /\ lastPreprocessIndex = 0
    /\ pendingReturnSweep = NoPending("undefined")
    /\ pangCountInPara = Undefined
    /\ prevRSTime = Undefined
    /\ timers = <<>>
    /\ clock = 0
    /\ ingested = 0
    /\ det = NoDet("none")
    /\ allFired = <<>>
    /\ uploads = <<>>
    /\ chunks = <<>>
    /\ calibration = NewCalibrationManager

\* ---------------------------------------------------------------- detector

\* d0.x * 0.5 + d1.x * 0.3 + d2.x * 0.2
SmoothX(x0, x1, x2) ==
    NDiv(NAdd(NAdd(NMul(x0, Num(5)), NMul(x1, Num(3))), NMul(x2, Num(2))),
         Num(10))

\* repairVX: a null, undefined or NaN velocity reads as 0.
repairVX(vx) == IF IsFinite(vx) THEN vx ELSE Num(0)

\* (sx1 >= sx2) && (sx1 > sx0)
IsPosPeak(sx0, sx1, sx2) == NGe(sx1, sx2) /\ NGt(sx1, sx0)

\* (v1 >= 0 && v0 < 0)
IsVelZeroCrossDown(v0, v1) == NGe(v1, Num(0)) /\ NLt(v0, Num(0))

\* (v2 > v1) && (v1 < v0)
IsVelValley(v0, v1, v2) == NGt(v2, v1) /\ NLt(v1, v0)

\* A depth test that every velocity passes.
DeepEnoughAlways(v1) == TRUE

\* v1 < -0.4
IsDeepEnough(v1) == NLt(v1, Rat(-4, 10))

\* A content gate that never blocks.
ContentGateNever(now, fct) == FALSE

\* !this.firstContentTime || now < this.firstContentTime
ContentGateBlocks(now, fct) == ~Truthy(fct) \/ NLt(Num(now), fct)

\* A cooldown that never blocks.
CooldownNever(now, ltt) == FALSE

\* this.lastTriggerTime && (now - this.lastTriggerTime < 500)
CooldownBlocks(now, ltt) == ltt # 0 /\ now - ltt < COOLDOWN_MS

\* A cascade window that never closes.
WindowAlwaysOpen(timeSincePeak) == TRUE

\* Math.abs(timeSincePeak) < 600
WithinCascadeWindow(timeSincePeak) == Abs(timeSincePeak) < CASCADE_WINDOW_MS

\* d0.line !== undefined && d0.line !== null
HasLine(line) == line # Undefined /\ line # Null

\* A start-line rule that never blocks.
StartLineNever(line) == FALSE

\* d0.line === 0
IsStartLine(line) == line = Num(0)

\* A max-reach rule that never blocks.
MaxReachNever(line, maxLine) == FALSE

\* d0.line <= this.maxLineIndexReached
MaxReachBlocks(line, maxLine) == NLe(line, Num(maxLine))

\* A target line that is the line of the sample itself.
TargetLineSame(line) == line.n

\* (d0.line > 0) ? d0.line - 1 : 0
TargetLine(line) == IF NGt(line, Num(0)) THEN line.n - 1 ELSE 0

\* this.pangCountInPara++ (undefined and NaN give NaN)
Incremented(c) == NAdd(c, Num(1))

\* A handler failure that rolls the newest sample back.
FireEffectLosing(s, type, vx, throws) ==
    IF throws THEN [s EXCEPT !.data = SubSeq(@, 1, Len(@) - 1)] ELSE s

\* _fireEffect(type, vx) on the manager state s.  With throws, the visual
\* effect handler raises after the event has been logged and the rest of
\* the function does not run.
FireEffect(s, type, vx, throws) ==
    LET len == Len(s.data)
        d0 == s.data[len]
        targetLine == TargetLine(d0.line)
        event == [t |-> d0.t, line |-> targetLine, type |-> type, vx |-> vx]
        logged == [s EXCEPT !.lastTriggerTime = d0.t,
                            !.data[len].didFire = TRUE,
                            !.data[len].rsTriggerType = type,
                            !.pangLog = Append(@, event),
                            !.allFired = Append(@, event)]
    IN  IF throws THEN logged
        ELSE [logged EXCEPT !.lastRSTime = d0.t,
                            !.lastRSLine = targetLine,
                            !.pangCountInPara = Incremented(@),
                            !.timers = Append(@, [targetLine |-> targetLine,
                                                  now |-> d0.t])]

\* detectRealtimeReturnSweep() on the manager state s; det records the path
\* the call took.
detectRealtimeReturnSweep(s, throws) ==
    LET len == Len(s.data)
    IN  IF len < MIN_SAMPLES THEN [s EXCEPT !.det = NoDet("short")]
        ELSE
        LET d0 == s.data[len]
            d1 == s.data[len - 1]
            d2 == s.data[len - 2]
            now == d0.t
            gx0 == SmoothX(d0.x, d1.x, d2.x)
            gx1 == IF d1.gx = Null THEN d1.x ELSE d1.gx
            gx2 == IF d2.gx = Null THEN d2.x ELSE d2.gx
            vx0 == IF d0.vx = Null
                   THEN IF d0.t - d1.t > 0
                        THEN NDiv(NSub(d0.x, d1.x), Num(d0.t - d1.t))
                        ELSE Num(0)
                   ELSE d0.vx
            v0 == repairVX(vx0)
            v1 == repairVX(d1.vx)
            v2 == repairVX(d2.vx)
            sx0 == OrElse(gx0, d0.x)
            sx1 == OrElse(gx1, d1.x)
            sx2 == OrElse(gx2, d2.x)
            peak == IsPosPeak(sx0, sx1, sx2) \/ IsVelZeroCrossDown(v0, v1)
            peakTime == IF peak THEN d1.t ELSE s.lastPosPeakTime
            valley == IsVelValley(v0, v1, v2) /\ IsDeepEnough(v1)
            timeSincePeak == d1.t - peakTime
            prepared == [s EXCEPT !.data[len].gx = gx0,
                                  !.data[len].vx = vx0,
                                  !.data[len - 1].gx = gx1,
                                  !.data[len - 2].gx = gx2,
                                  !.lastPosPeakTime = peakTime]
            rec(r) == [result |-> r, peak |-> peak, valley |-> valley,
                       sincePeak |-> timeSincePeak, v1 |-> v1,
                       line |-> d0.line, t |-> now, trimmed |-> 0]
        IN  IF ContentGateBlocks(now, s.firstContentTime)
            THEN [prepared EXCEPT !.det = rec("content_gate")]
            ELSE IF CooldownBlocks(now, s.lastTriggerTime)
            THEN [prepared EXCEPT !.det = rec("cooldown")]
            ELSE IF ~valley
            THEN [prepared EXCEPT !.det = rec("no_valley")]
            ELSE IF ~WithinCascadeWindow(timeSincePeak)
            THEN [prepared EXCEPT !.det = rec("window")]
            ELSE IF ~HasLine(d0.line)
            THEN [prepared EXCEPT !.det = rec("no_line")]
            ELSE IF IsStartLine(d0.line)
            THEN [prepared EXCEPT !.det = rec("start_line")]
            ELSE IF MaxReachBlocks(d0.line, s.maxLineIndexReached)
            THEN [prepared EXCEPT !.det = rec("max_reach")]
            ELSE IF throws
            THEN [FireEffect(prepared, "Immediate", v1, TRUE)
                    EXCEPT !.det = rec("threw")]
            ELSE [FireEffect(prepared, "Immediate", v1, FALSE)
                    EXCEPT !.data[len].rsState = "Immediate_Success",
                           !.lastPosPeakTime = 0,
                           !.maxLineIndexReached = d0.line.n,
                           !.det = rec("fired")]

\* -------------------------------------------------------------- processGaze

\* A trim of a fifth of the capacity.
TrimCountFifth == MAX_BUFFER_SIZE \div 5

\* Math.floor(this.MAX_BUFFER_SIZE * 0.1)
TrimCount == MAX_BUFFER_SIZE \div 10

\* A capacity test that is late by one sample.
OverCapacityLate(len) == len > MAX_BUFFER_SIZE + 1

\* this.data.length > this.MAX_BUFFER_SIZE
OverCapacity(len) == len > MAX_BUFFER_SIZE

\* A cursor shift without the floor at 0.
ShiftCursorUnclamped(cursor, trimCount) == cursor - trimCount

\* Math.max(0, cursor - trimCount)
ShiftCursor(cursor, trimCount) == Max(0, cursor - trimCount)

\* A time origin that is set once and never moved.
OriginFirstOnly(ts, origin) == IF origin = Null THEN Num(ts) ELSE origin

\* A time origin that restarts whenever the session is 300 ms old.
OriginRestarting(ts, origin) ==
    IF origin = Null \/ ts - origin.n >= 300 THEN Num(ts) ELSE origin

\* The time origin after a sample with absolute time ts: set on the first
\* sample and on a timestamp earlier than the origin.
Origin(ts, origin) ==
    IF origin = Null \/ NLt(Num(ts), origin) THEN Num(ts) ELSE origin

\* The type code stored for an eyemovementState.
TypeCode(ems) == IF ems = 0 THEN 0 ELSE IF ems = 2 THEN 2 ELSE 1

\* The buffer entry processGaze builds.
Entry(t, x, y, ems, ctx) ==
    [t |-> t, x |-> x, y |-> y,
     line |-> ctx.lineIndex, pIdx |-> ctx.paraIndex, wIdx |-> ctx.wordIndex,
     type |-> TypeCode(ems),
     gx |-> Undefined, gy |-> Undefined, vx |-> Undefined, vy |-> Undefined,
     didFire |-> FALSE, rsTriggerType |-> "", rsState |-> ""]

\* firstContentTime after ingesting entry e: the time of the first sample
\* that carries a numeric line >= 0.
ContentStart(fct, e) ==
    IF fct = Null /\ IsNumber(e.line) /\ NGe(e.line, Num(0))
    THEN Num(e.t) ELSE fct

\* The real-time velocity of the newest sample from its predecessor.
WithVelocity(d) ==
    LET len == Len(d)
    IN  IF len > 1
        THEN LET prev == d[len - 1]
                 curr == d[len]
                 dt == curr.t - prev.t
             IN  IF dt > 0
                 THEN [d EXCEPT ![len].vx = NDiv(NSub(curr.x, prev.x), Num(dt)),
                                ![len].vy = NDiv(NSub(curr.y, prev.y), Num(dt))]
                 ELSE [d EXCEPT ![len].vx = Num(0), ![len].vy = Num(0)]
        ELSE d

\* prevLineIndex === null || prevLineIndex === undefined || prevLineIndex === -1
IsContextRestored == prevLineIndex \in {Null, Undefined, Num(-1)}

\* The pending-sweep resolution of processGaze on the manager state s, for
\* the newest sample e.  failed: _fireEffect raised, and the rest of the
\* real-time block is skipped.
ResolvePending(s, e, throws) ==
    IF s.pendingReturnSweep.kind = "object" /\ HasLine(e.line)
       /\ IsContextRestored
    THEN IF e.t - s.pendingReturnSweep.t < PENDING_TTL_MS
         THEN IF throws
              THEN [FireEffect(s, "Delayed", s.pendingReturnSweep.vx, TRUE)
                      EXCEPT !.failed = TRUE]
              ELSE [FireEffect(s, "Delayed", s.pendingReturnSweep.vx, FALSE)
                      EXCEPT !.pendingReturnSweep = NoPending("null")]
         ELSE [s EXCEPT !.pendingReturnSweep = NoPending("null")]
    ELSE s

\* setContext(ctx) that replaces the whole context by ctx.
setContextReplacing(ctx) ==
    /\ context' = [k \in DOMAIN context |->
                     IF k \in DOMAIN ctx THEN ctx[k] ELSE Undefined]
    /\ det' = NoDet("none")
    /\ UNCHANGED <<uploadVars, calibration>>
    /\ UNCHANGED <<allFired, bufVars, originVars, guardVars, eventVars, speedVars>>

\* setContext(ctx): every key of ctx overwrites the persisted field, the
\* others stay.  ctx is a function from a set of field names to values.
setContext(ctx) ==
    /\ context' = [k \in DOMAIN context |->
                     IF k \in DOMAIN ctx THEN ctx[k] ELSE context[k]]
    /\ det' = NoDet("none")
    /\ UNCHANGED <<uploadVars, calibration>>
    /\ UNCHANGED <<allFired, bufVars, originVars, guardVars, eventVars, speedVars>>

\* resetTriggers() without the reset of the max-reach guard.
resetTriggersKeepingReach ==
    /\ firstContentTime' = Null
    /\ lastTriggerTime' = 0
    /\ lastPosPeakTime' = 0
    /\ pendingReturnSweep' = NoPending("null")
    /\ pangLog' = <<>>
    /\ wpmData' = <<>>
    /\ lastRSTime' = 0
    /\ lastRSLine' = -1
    /\ pangCountInPara' = Num(0)
    /\ searchStartIndex' = Len(data)
    /\ det' = NoDet("none")
    /\ UNCHANGED <<uploadVars, calibration>>
    /\ UNCHANGED <<allFired, data, lastUploadedIndex, lastPreprocessIndex,
                   originVars, context, timers, wpm, validWordSum,
                   validTimeSum, prevRSTime, maxLineIndexReached>>

\* resetTriggers() with the cumulative speed state zeroed as well.
resetTriggersZeroingSpeed ==
    /\ firstContentTime' = Null
    /\ lastTriggerTime' = 0
    /\ lastPosPeakTime' = 0
    /\ pendingReturnSweep' = NoPending("null")
    /\ maxLineIndexReached' = -1
    /\ pangLog' = <<>>
    /\ wpmData' = <<>>
    /\ lastRSTime' = 0
    /\ lastRSLine' = -1
    /\ pangCountInPara' = Num(0)
    /\ searchStartIndex' = Len(data)
    /\ wpm' = 0
    /\ validWordSum' = 0
    /\ validTimeSum' = 0
    /\ det' = NoDet("none")
    /\ UNCHANGED <<uploadVars, calibration>>
    /\ UNCHANGED <<allFired, data, lastUploadedIndex, lastPreprocessIndex,
                   originVars, context, timers, prevRSTime>>

\* resetTriggers()
resetTriggers ==
    /\ firstContentTime' = Null
    /\ lastTriggerTime' = 0
    /\ lastPosPeakTime' = 0
    /\ pendingReturnSweep' = NoPending("null")
    /\ maxLineIndexReached' = -1
    /\ pangLog' = <<>>
    /\ wpmData' = <<>>
    /\ lastRSTime' = 0
    /\ lastRSLine' = -1
    /\ pangCountInPara' = Num(0)
    /\ searchStartIndex' = Len(data)
    /\ det' = NoDet("none")
    /\ UNCHANGED <<uploadVars, calibration>>
    /\ UNCHANGED <<allFired, data, lastUploadedIndex, lastPreprocessIndex, originVars,
                   context, timers, wpm, validWordSum, validTimeSum,
                   prevRSTime>>

\* reset()
reset ==
    /\ data' = <<>>
    /\ firstTimestamp' = Null
    /\ context' = [lineIndex |-> Undefined, paraIndex |-> Undefined,
                   wordIndex |-> Undefined]
    /\ lastTriggerTime' = 0
    /\ lastPosPeakTime' = 0
    /\ firstContentTime' = Null
    /\ lastUploadedIndex' = 0
    /\ wpmData' = <<>>
    /\ pangLog' = <<>>
    /\ wpm' = 0
    /\ validWordSum' = 0
    /\ validTimeSum' = 0
    /\ lastRSTime' = 0
    /\ lastRSLine' = -1
    /\ lastPreprocessIndex' = 0
    /\ searchStartIndex' = 0
    /\ maxLineIndexReached' = -1
    /\ pangCountInPara' = Num(0)
    /\ pendingReturnSweep' = NoPending("null")
    /\ det' = NoDet("none")
    /\ allFired' = <<>>
    /\ UNCHANGED <<uploadVars, calibration>>
    /\ UNCHANGED <<clock, ingested, timers, prevRSTime>>

\* clearGazeData() that also forgets the time origin.
clearGazeDataResettingOrigin ==
    /\ data' = <<>>
    /\ lastPreprocessIndex' = 0
    /\ lastUploadedIndex' = 0
    /\ firstTimestamp' = Null
    /\ det' = NoDet("none")
    /\ UNCHANGED <<uploadVars, calibration>>
    /\ UNCHANGED <<allFired, searchStartIndex, clock, ingested, context,
                   guardVars, eventVars, speedVars>>

\* clearGazeData()
clearGazeData ==
    /\ data' = <<>>
    /\ lastPreprocessIndex' = 0
    /\ lastUploadedIndex' = 0
    /\ det' = NoDet("none")
    /\ UNCHANGED <<uploadVars, calibration>>
    /\ UNCHANGED <<allFired, searchStartIndex, originVars, context, guardVars,
                   eventVars, speedVars>>

\* ---------------------------------------------------------- preprocessData

\* isNaN(x) || isNaN(y) || (x === 0 && y === 0) || typeof x !== 'number'
IsMissing(d) ==
    \/ ~IsFinite(d.x)
    \/ ~IsFinite(ToNum(d.y))
    \/ (d.x = Num(0) /\ d.y = Num(0))

\* typeof x === 'number' && !isNaN(x) && !isNaN(y) && (x !== 0 || y !== 0)
IsValid(d) ==
    /\ IsFinite(d.x)
    /\ IsFinite(ToNum(d.y))
    /\ (d.x # Num(0) \/ d.y # Num(0))

\* The nearest valid index below i (0: none), scanning backward.
RECURSIVE PrevValid(_, _)
PrevValid(d, i) ==
    IF i < 1 THEN 0 ELSE IF IsValid(d[i]) THEN i ELSE PrevValid(d, i - 1)

\* The nearest valid index above i (Len(d) + 1: none), scanning forward.
RECURSIVE NextValid(_, _)
NextValid(d, i) ==
    IF i > Len(d) THEN i ELSE IF IsValid(d[i]) THEN i ELSE NextValid(d, i + 1)

\* An interpolation that holds the earlier neighbour's value.
LerpHoldingPrev(p, n, ratio) == p

\* p + (n - p) * ratio
Lerp(p, n, ratio) == NAdd(p, NMul(NSub(n, p), ratio))

\* Step 1 of preprocessData for index i (1-based): a missing sample with a
\* valid sample on both sides is interpolated by time ratio; any other
\* sample is left as it is.
InterpolateAt(d, i) ==
    IF ~IsMissing(d[i]) THEN d
    ELSE LET pi == PrevValid(d, i - 1)
             ni == NextValid(d, i + 1)
         IN  IF pi >= 1 /\ ni <= Len(d)
             THEN LET ratio == NDiv(Num(d[i].t - d[pi].t),
                                    Num(d[ni].t - d[pi].t))
                  IN  [d EXCEPT ![i].x = Lerp(d[pi].x, d[ni].x, ratio),
                                ![i].y = Lerp(d[pi].y, d[ni].y, ratio)]
             ELSE d

\* The interpolation loop over indexes i..last, in index order.
RECURSIVE Interpolate(_, _, _)
Interpolate(d, i, last) ==
    IF i > last THEN d ELSE Interpolate(InterpolateAt(d, i), i + 1, last)

\* The kernel [0.0545, 0.2442, 0.4026, 0.2442, 0.0545], in units of 0.0001.
Kernel == <<545, 2442, 4026, 2442, 545>>

\* Math.floor(kernel.length / 2)
Half == Len(Kernel) \div 2

\* The in-range taps of the window centred on i.
Taps(d, i) == {k \in (0 - Half)..Half : i + k >= 1 /\ i + k <= Len(d)}

RECURSIVE SumTaps(_, _, _, _)
SumTaps(d, i, ks, f) ==
    IF ks = {} THEN Num(0)
    ELSE LET k == CHOOSE m \in ks : \A o \in ks : m <= o
         IN  NAdd(NMul(IF f = "x" THEN d[i + k].x ELSE d[i + k].y,
                       Num(Kernel[k + Half + 1])),
                  SumTaps(d, i, ks \ {k}, f))

\* A normalisation by the nominal kernel sum, whatever taps are in range.
SumKernelNominal(ks) == Kernel[1] + Kernel[2] + Kernel[3] + Kernel[4] + Kernel[5]

RECURSIVE SumKernel(_)
SumKernel(ks) ==
    IF ks = {} THEN 0
    ELSE LET k == CHOOSE m \in ks : TRUE
         IN  Kernel[k + Half + 1] + SumKernel(ks \ {k})

\* Step 2 of preprocessData for index i (1-based): the smoothed position,
\* renormalised by the weights in range, and the velocity from the
\* smoothed positions.
SmoothAt(d, i) ==
    LET ks == Taps(d, i)
        sumK == Num(SumKernel(ks))
        gx == NDiv(SumTaps(d, i, ks, "x"), sumK)
        gy == NDiv(SumTaps(d, i, ks, "y"), sumK)
        g == [d EXCEPT ![i].gx = gx, ![i].gy = gy]
    IN  IF i > 1
        THEN LET prev == d[i - 1]
                 dt == d[i].t - prev.t
             IN  IF dt > 0
                 THEN [g EXCEPT ![i].vx = NDiv(NSub(gx, prev.gx), Num(dt)),
                                ![i].vy = NDiv(NSub(gy, prev.gy), Num(dt))]
                 ELSE [g EXCEPT ![i].vx = Num(0), ![i].vy = Num(0)]
        ELSE g

RECURSIVE Smooth(_, _, _)
Smooth(d, i, last) ==
    IF i > last THEN d ELSE Smooth(SmoothAt(d, i), i + 1, last)

\* The kernel weights as the doubles their literals denote.
KernelValues ==
    [j \in 1..Len(Kernel) |-> DDiv(DFromInt(Kernel[j]), DFromInt(10000))]

\* The sums of the smoothing loop for index i of the values xs, over the
\* taps k..Half in this order: sumX += xs[idx] * kernel[k + half] and
\* sumK += kernel[k + half], in double arithmetic.
RECURSIVE TapSums(_, _, _, _)
TapSums(xs, i, k, acc) ==
    IF k > Half THEN acc
    ELSE IF i + k < 1 \/ i + k > Len(xs) THEN TapSums(xs, i, k + 1, acc)
    ELSE CHOOSE res \in
           {TapSums(xs, i, k + 1, nx) :
              nx \in {[sumX |-> DAdd(acc.sumX,
                                     DMul(xs[i + k], KernelValues[k + Half + 1])),
                       sumK |-> DAdd(acc.sumK, KernelValues[k + Half + 1])]}} :
           TRUE

\* The double that the smoothing loop writes to gx (f = "x") or gy
\* (f = "y") of sample i of the buffer d: sumX / sumK.  The coordinates of
\* d are non-negative integers.
SmoothedValue(d, i, f) ==
    LET xs == [j \in 1..Len(d) |->
                 DFromInt(IF f = "x" THEN d[j].x.n ELSE d[j].y.n)]
        sums == TapSums(xs, i, 0 - Half, [sumX |-> DZero, sumK |-> DZero])
    IN  DDiv(sums.sumX, sums.sumK)

\* Math.max(0, this.lastPreprocessIndex - 2), as a 0-based index.
StartIdx(cursor) == Max(0, cursor - 2)

\* The buffer after preprocessData() with the cursor at `cursor`.
Preprocessed(d, cursor) ==
    LET startIdx == StartIdx(cursor)
        endIdx == Len(d)
    IN  IF Len(d) < 2 \/ startIdx >= endIdx - 1 THEN d
        ELSE Smooth(Interpolate(d, startIdx + 1, endIdx), startIdx + 1, endIdx)

\* preprocessData()
preprocessData ==
    /\ data' = Preprocessed(data, lastPreprocessIndex)
    /\ lastPreprocessIndex' =
         IF Len(data) < 2 \/ StartIdx(lastPreprocessIndex) >= Len(data) - 1
         THEN lastPreprocessIndex ELSE Len(data)
    /\ det' = NoDet("none")
    /\ UNCHANGED <<uploadVars, calibration>>
    /\ UNCHANGED <<allFired, lastUploadedIndex, searchStartIndex, originVars, context,
                   guardVars, eventVars, speedVars>>

\* ------------------------------------------------------------ uploadToCloud

\* The cursor update that ends a chunk upload of uploadToCloud: once the
\* push of a non-empty chunk has resolved, lastUploadedIndex becomes the
\* length the buffer has at that moment.
uploadChunkDone ==
    /\ ingested > 0
    /\ lastUploadedIndex' = Len(data)
    /\ det' = NoDet("none")
    /\ UNCHANGED <<uploadVars, calibration>>
    /\ UNCHANGED <<allFired, data, lastPreprocessIndex, searchStartIndex,
                   originVars, context, guardVars, eventVars, speedVars>>

\* uploadToCloud is an async function: it runs up to an await, is suspended
\* there while other calls run, and resumes later.  A suspended call is a
\* record of uploads: pc "meta" while it waits for the two metadata writes
\* (the awaits at 537 and 542, with no code between them), pc "push" while it
\* waits for chunksRef.push, with newData the chunk it sliced (the samples
\* are named by their t).  The replayData write that follows touches no
\* modelled state.

\* The samples of the buffer d from 0-based index startIndex on.
Slice(d, startIndex) ==
    [i \in 1..(Len(d) - startIndex) |-> d[startIndex + i].t]

\* The suspended calls without the i-th.
Without(calls, i) ==
    [j \in 1..(Len(calls) - 1) |-> IF j < i THEN calls[j] ELSE calls[j + 1]]

\* uploadToCloud(sessionId), up to the first await: preprocessData() and the
\* metadata write.
uploadToCloud ==
    /\ Len(uploads) + Len(chunks) < MaxUploads
    /\ data' = Preprocessed(data, lastPreprocessIndex)
    /\ lastPreprocessIndex' =
         IF Len(data) < 2 \/ StartIdx(lastPreprocessIndex) >= Len(data) - 1
         THEN lastPreprocessIndex ELSE Len(data)
    /\ uploads' = Append(uploads, [pc |-> "meta", newData |-> <<>>])
    /\ det' = NoDet("none")
    /\ UNCHANGED <<calibration, chunks, allFired, lastUploadedIndex, searchStartIndex,
                   originVars, context, guardVars, eventVars, speedVars>>

\* A call resumes after the metadata writes: it slices the samples from
\* lastUploadedIndex on and, if there are any, pushes them as a chunk and is
\* suspended again; with none it finishes.
UploadSlice ==
    \E i \in 1..Len(uploads) :
        /\ uploads[i].pc = "meta"
        /\ LET newData == Slice(data, lastUploadedIndex)
           IN  uploads' = IF Len(newData) > 0
                          THEN [uploads EXCEPT ![i] = [pc |-> "push",
                                                      newData |-> newData]]
                          ELSE Without(uploads, i)
        /\ det' = NoDet("none")
        /\ UNCHANGED <<calibration, chunks, allFired, bufVars, originVars, context,
                       guardVars, eventVars, speedVars>>

\* A call resumes after the push has resolved: the chunk is in the database
\* and lastUploadedIndex becomes the length the buffer has now.
UploadPushed ==
    \E i \in 1..Len(uploads) :
        /\ uploads[i].pc = "push"
        /\ chunks' = Append(chunks, uploads[i].newData)
        /\ lastUploadedIndex' = Len(data)
        /\ uploads' = Without(uploads, i)
        /\ det' = NoDet("none")
        /\ UNCHANGED <<calibration, allFired, data, lastPreprocessIndex,
                       searchStartIndex, originVars, context, guardVars,
                       eventVars, speedVars>>

\* --------------------------------------------------------- _calcWPMForLine

\* window.Game.typewriter.renderer.lines: the word count of each line of the
\* displayed text, line 0 first.
RendererLines == <<3, 2, 3, 4>>

\* The backward scan for the first sample of targetLine: from index i
\* (1-based) down to limit + 1, stopping at a sample of an earlier line.
RECURSIVE ScanStart(_, _, _, _, _)
ScanStart(d, i, limit, targetLine, startTime) ==
    IF i <= limit THEN startTime
    ELSE IF d[i].line = Num(targetLine)
    THEN ScanStart(d, i - 1, limit, targetLine, d[i].t)
    ELSE IF NLt(d[i].line, Num(targetLine)) THEN startTime
    ELSE ScanStart(d, i - 1, limit, targetLine, startTime)

\* lastRSLine === targetLine - 1 && lastRSTime > 0 && _prevRSTime && _prevRSTime > 0
ChainedToPrevious(targetLine) ==
    /\ lastRSLine = targetLine - 1
    /\ lastRSTime > 0
    /\ Truthy(prevRSTime)
    /\ NGt(prevRSTime, Num(0))

\* The duration _calcWPMForLine credits to targetLine for an event at `now`.
Duration(targetLine, now) ==
    IF ChainedToPrevious(targetLine) THEN now - prevRSTime.n
    ELSE LET limit == Max(searchStartIndex, Len(data) - SCAN_CAP)
             scanned == ScanStart(data, Len(data), limit, targetLine, now)
             startTime == IF scanned = now /\ targetLine = 0
                             /\ Truthy(firstContentTime)
                          THEN firstContentTime.n ELSE scanned
         IN  now - startTime

\* A speed update that skips line 0 only.
SkipsUpdateOfLineZero(duration, targetLine) == targetLine = 0

\* duration < 100 || pangCountInPara <= 1 || targetLine === 0
SkipsUpdate(duration, targetLine) ==
    \/ duration < MIN_DURATION_MS
    \/ NLe(pangCountInPara, Num(1))
    \/ targetLine = 0

\* A speed update that truncates the quotient instead of rounding it.
TruncatedWPM(words, time) == (words * MS_PER_MINUTE) \div time

\* A speed update that rounds the exact quotient words * 60000 / time.
RoundedExactWPM(words, time) ==
    (2 * words * MS_PER_MINUTE + time) \div (2 * time)

\* minutes = time / 60000; Math.round(words / minutes), in the code's double
\* arithmetic.
RoundedWPM(words, time) ==
    DRoundToInt(DDiv(DFromInt(words),
                     DDiv(DFromInt(time), DFromInt(MS_PER_MINUTE))))

\* _calcWPMForLine(targetLine, now)
calcWPMForLine(targetLine, now) ==
    IF \/ Len(RendererLines) = 0
       \/ targetLine >= Len(RendererLines) - 1
       \/ RendererLines[targetLine + 1] = 0
    THEN UNCHANGED speedVars
    ELSE LET wordCount == RendererLines[targetLine + 1]
             duration == Duration(targetLine, now)
             timeSum == validTimeSum + duration
             wordSum == validWordSum + wordCount
         IN  /\ prevRSTime' = Num(now)
             /\ IF SkipsUpdate(duration, targetLine)
                THEN UNCHANGED <<wpm, validWordSum, validTimeSum, wpmData>>
                ELSE /\ validTimeSum' = timeSum
                     /\ validWordSum' = wordSum
                     /\ IF timeSum > 0 /\ wordSum > 0
                        THEN /\ wpm' = RoundedWPM(wordSum, timeSum)
                             /\ wpmData' = Append(wpmData,
                                  [paraIndex |-> OrElse(context.paraIndex,
                                                        Num(-1)),
                                   line |-> targetLine,
                                   duration |-> duration,
                                   words |-> wordCount,
                                   wpm |-> wpm'])
                        ELSE UNCHANGED <<wpm, wpmData>>

\* ------------------------------------------------------------ processGaze

\* A processGaze that runs the speed update of an event inside the call that
\* fires it.
processGazeUpdatingSpeed(ts, x, y, ems, throws) ==
    LET origin == Origin(ts, firstTimestamp)
        t == ts - origin.n
        e == Entry(t, x, y, ems, context)
        pushed == Append(data, e)
        over == OverCapacity(Len(pushed))
        trimCount == TrimCount
        kept == IF over THEN SubSeq(pushed, trimCount + 1, Len(pushed))
                ELSE pushed
        fct == ContentStart(firstContentTime, e)
        s0 == [data |-> WithVelocity(kept),
               lastPosPeakTime |-> lastPosPeakTime,
               lastTriggerTime |-> lastTriggerTime,
               firstContentTime |-> fct,
               maxLineIndexReached |-> maxLineIndexReached,
               pangLog |-> pangLog,
               lastRSTime |-> lastRSTime,
               lastRSLine |-> lastRSLine,
               pangCountInPara |-> pangCountInPara,
               timers |-> timers,
               pendingReturnSweep |-> pendingReturnSweep,
               allFired |-> allFired,
               failed |-> FALSE,
               det |-> NoDet("skipped")]
        s1 == ResolvePending(s0, e, throws)
    IN  \E s2 \in {IF s1.failed THEN s1
                   ELSE detectRealtimeReturnSweep(s1, throws)} :
        /\ clock' = ts
        /\ ingested' = ingested + 1
        /\ firstTimestamp' = origin
        /\ data' = s2.data
        /\ lastUploadedIndex' =
             IF over THEN ShiftCursor(lastUploadedIndex, trimCount)
             ELSE lastUploadedIndex
        /\ lastPreprocessIndex' =
             IF over THEN ShiftCursor(lastPreprocessIndex, trimCount)
             ELSE lastPreprocessIndex
        /\ searchStartIndex' =
             IF over THEN ShiftCursor(searchStartIndex, trimCount)
             ELSE searchStartIndex
        /\ firstContentTime' = fct
        /\ lastPosPeakTime' = s2.lastPosPeakTime
        /\ lastTriggerTime' = s2.lastTriggerTime
        /\ maxLineIndexReached' = s2.maxLineIndexReached
        /\ pangLog' = s2.pangLog
        /\ lastRSTime' = s2.lastRSTime
        /\ lastRSLine' = s2.lastRSLine
        /\ pangCountInPara' = s2.pangCountInPara
        /\ pendingReturnSweep' = s2.pendingReturnSweep
        /\ det' = [s2.det EXCEPT !.trimmed = IF over THEN trimCount ELSE 0]
        /\ allFired' = s2.allFired
        /\ UNCHANGED <<uploadVars, calibration>>
        /\ IF Len(s2.timers) > Len(timers)
           THEN /\ calcWPMForLine(s2.timers[Len(s2.timers)].targetLine,
                                  s2.timers[Len(s2.timers)].now)
                /\ timers' = timers
           ELSE /\ timers' = s2.timers
                /\ UNCHANGED speedVars
        /\ UNCHANGED context

\* processGaze(gazeInfo) with Date.now() = ts, gazeInfo.x = x, gazeInfo.y = y,
\* gazeInfo.eyemovementState = ems.
processGaze(ts, x, y, ems, throws) ==
    LET origin == Origin(ts, firstTimestamp)
        t == ts - origin.n
        e == Entry(t, x, y, ems, context)
        pushed == Append(data, e)
        over == OverCapacity(Len(pushed))
        trimCount == TrimCount
        kept == IF over THEN SubSeq(pushed, trimCount + 1, Len(pushed))
                ELSE pushed
        fct == ContentStart(firstContentTime, e)
        s0 == [data |-> WithVelocity(kept),
               lastPosPeakTime |-> lastPosPeakTime,
               lastTriggerTime |-> lastTriggerTime,
               firstContentTime |-> fct,
               maxLineIndexReached |-> maxLineIndexReached,
               pangLog |-> pangLog,
               lastRSTime |-> lastRSTime,
               lastRSLine |-> lastRSLine,
               pangCountInPara |-> pangCountInPara,
               timers |-> timers,
               pendingReturnSweep |-> pendingReturnSweep,
               allFired |-> allFired,
               failed |-> FALSE,
               det |-> NoDet("skipped")]
        s1 == ResolvePending(s0, e, throws)
    IN  \E s2 \in {IF s1.failed THEN s1
                   ELSE detectRealtimeReturnSweep(s1, throws)} :
        /\ clock' = ts
        /\ ingested' = ingested + 1
        /\ firstTimestamp' = origin
        /\ data' = s2.data
        /\ lastUploadedIndex' =
             IF over THEN ShiftCursor(lastUploadedIndex, trimCount)
             ELSE lastUploadedIndex
        /\ lastPreprocessIndex' =
             IF over THEN ShiftCursor(lastPreprocessIndex, trimCount)
             ELSE lastPreprocessIndex
        /\ searchStartIndex' =
             IF over THEN ShiftCursor(searchStartIndex, trimCount)
             ELSE searchStartIndex
        /\ firstContentTime' = fct
        /\ lastPosPeakTime' = s2.lastPosPeakTime
        /\ lastTriggerTime' = s2.lastTriggerTime
        /\ maxLineIndexReached' = s2.maxLineIndexReached
        /\ pangLog' = s2.pangLog
        /\ lastRSTime' = s2.lastRSTime
        /\ lastRSLine' = s2.lastRSLine
        /\ pangCountInPara' = s2.pangCountInPara
        /\ timers' = s2.timers
        /\ pendingReturnSweep' = s2.pendingReturnSweep
        /\ det' = [s2.det EXCEPT !.trimmed = IF over THEN trimCount ELSE 0]
        /\ allFired' = s2.allFired
        /\ UNCHANGED <<uploadVars, calibration>>
        /\ UNCHANGED <<context, speedVars>>

\* The oldest scheduled speed update runs.
RunTimer ==
    /\ timers # <<>>
    /\ calcWPMForLine(Head(timers).targetLine, Head(timers).now)
    /\ timers' = Tail(timers)
    /\ det' = NoDet("none")
    /\ UNCHANGED <<uploadVars, calibration>>
    /\ UNCHANGED <<allFired, bufVars, originVars, context, guardVars, pangLog,
                   lastRSTime, lastRSLine, pangCountInPara>>

\* ---------------------------------------------------------- specifications

\* Input sets of the detector specification.  A sample is the time step from
\* the previous sample (ms) and the horizontal position; the vertical
\* position is constant.  The samples that precede the detector's first
\* three-sample window are steady.
Samples == {[dt |-> 100, x |-> 300], [dt |-> 100, x |-> 0],
            [dt |-> 600, x |-> 0]}
SteadySample == [dt |-> 100, x |-> 300]
SamplesAt(n) == IF n < MIN_SAMPLES - 2 THEN {SteadySample} ELSE Samples

\* The line indexes the caller sets: reading moves forward through the lines.
Lines == {Num(0), Num(1), Num(2)}
MovesForward(from, to) == from = Undefined \/ to.n > from.n

\* A sample arrives dt ms after the previous one.
Ingest ==
    \E g \in SamplesAt(ingested) :
        /\ ingested < MaxSamples
        /\ processGaze(clock + g.dt, Num(g.x), Num(1), 0, FALSE)

\* The caller sets the line index.
SetLine ==
    \E l \in Lines :
        /\ MovesForward(context.lineIndex, l)
        /\ setContext([lineIndex |-> l])

\* The caller clears the line index (the gaze is between lines).
ClearLine ==
    /\ context.lineIndex # Undefined
    /\ setContext([lineIndex |-> Undefined])

\* The detector specification: one reading session, samples and line
\* changes interleaved with resetTriggers and the scheduled speed updates.
Next ==
    \/ Ingest
    \/ SetLine
    \/ resetTriggers
    \/ RunTimer

Spec == Init /\ [][Next]_vars

\* The buffer specification: a long steady stream, interleaved with every
\* operation that touches the buffer or its cursors.
IngestSteady ==
    /\ ingested < MaxLongSamples
    /\ processGaze(clock + SteadySample.dt, Num(SteadySample.x), Num(1), 0,
                   FALSE)

\* The caller sets the line index before the stream starts.
StartReading ==
    /\ context.lineIndex = Undefined
    /\ data = <<>>
    /\ setContext([lineIndex |-> Num(1)])

NextBuf ==
    \/ IngestSteady
    \/ StartReading
    \/ preprocessData
    \/ resetTriggers
    \/ clearGazeData
    \/ reset

SpecBuf == Init /\ [][NextBuf]_vars

\* The cursor specification: a long steady stream with the operations that
\* move a cursor.
NextCursor ==
    \/ IngestSteady
    \/ preprocessData
    \/ resetTriggers
    \/ uploadChunkDone
    \/ clearGazeData

SpecCursor == Init /\ [][NextCursor]_vars

\* The upload specification: a long steady stream with uploadToCloud calls
\* that are suspended at their awaits while samples are ingested, the buffer
\* is cleared or another uploadToCloud call runs.
NextUpload ==
    \/ IngestSteady
    \/ uploadToCloud
    \/ UploadSlice
    \/ UploadPushed
    \/ clearGazeData

SpecUpload == Init /\ [][NextUpload]_vars

\* The fault specification: samples with valid, NaN and (0,0) coordinates,
\* and a visual-effect handler that may raise when the detector fires.
FaultSamples ==
    {[dt |-> 100, x |-> Num(300), y |-> Num(1)],
     [dt |-> 100, x |-> Num(0), y |-> Num(1)],
     [dt |-> 100, x |-> NaN, y |-> Num(1)],
     [dt |-> 100, x |-> Num(0), y |-> Num(0)]}

FaultSamplesAt(n) ==
    IF n < MIN_SAMPLES - 2
    THEN {[dt |-> SteadySample.dt, x |-> Num(SteadySample.x), y |-> Num(1)]}
    ELSE FaultSamples

IngestFaulty ==
    \E g \in FaultSamplesAt(ingested), throws \in BOOLEAN :
        /\ ingested < MaxFaultSamples
        /\ processGaze(clock + g.dt, g.x, g.y, 0, throws)

NextFault ==
    \/ IngestFaulty
    \/ SetLine
    \/ RunTimer

SpecFault == Init /\ [][NextFault]_vars

\* The clock specification: Date.now() may return any of a few absolute
\* times at each call, earlier ones included.
Clocks == {50, 100, 150, 200}

IngestAt ==
    \E ts \in Clocks :
        /\ ingested < MaxClockSamples
        /\ processGaze(ts, Num(SteadySample.x), Num(1), 0, FALSE)

NextClock ==
    \/ IngestAt
    \/ StartReading

SpecClock == Init /\ [][NextClock]_vars

\* The ordering specification: a long stream whose absolute timestamps never
\* decrease; two consecutive calls, and no more, may see the same
\* millisecond.
IngestRepeat ==
    /\ ingested < MaxLongSamples
    /\ data # <<>>
    /\ Len(data) >= 2 => data[Len(data)].t # data[Len(data) - 1].t
    /\ processGaze(clock, Num(SteadySample.x), Num(1), 0, FALSE)

NextOrder ==
    \/ IngestSteady
    \/ IngestRepeat
    \/ resetTriggers
    \/ clearGazeData

SpecOrder == Init /\ [][NextOrder]_vars

\* The context specification: the caller passes any non-empty subset of the
\* fields lineIndex, paraIndex and wordIndex to setContext, between samples.
Fields == {"lineIndex", "paraIndex", "wordIndex"}

FieldValues(k) == IF k = "lineIndex" THEN {Num(1), Num(2)} ELSE {Num(1)}

Contexts ==
    UNION {{ctx \in [D -> {Num(1), Num(2)}] : \A k \in D : ctx[k] \in FieldValues(k)} :
             D \in (SUBSET Fields) \ {{}}}

SetFields == \E ctx \in Contexts : setContext(ctx)

IngestFew ==
    /\ ingested < MaxContextSamples
    /\ processGaze(clock + SteadySample.dt, Num(SteadySample.x), Num(1), 0,
                   FALSE)

NextContext ==
    \/ IngestFew
    \/ SetFields

SpecContext == Init /\ [][NextContext]_vars

\* The gap specification: valid samples and (0,0) samples, one millisecond
\* apart or in the same millisecond, with preprocessData between them.
GapSamples ==
    {[dt |-> dt, x |-> Num(c.x), y |-> Num(c.y)] :
        dt \in {0, 1},
        c \in {[x |-> 3, y |-> 1], [x |-> 9, y |-> 7], [x |-> 0, y |-> 0]}}

IngestGap ==
    \E g \in GapSamples :
        /\ ingested < MaxGapSamples
        /\ processGaze(clock + g.dt, g.x, g.y, 0, FALSE)

NextGapFill ==
    \/ IngestGap
    \/ preprocessData

SpecGapFill == Init /\ [][NextGapFill]_vars

\* The batch specification: a fixed stream with lost samples (the (0,0)
\* sentinel) in the middle and at the end of what has been ingested, split
\* into preprocessData calls at any points.
SplitT == <<0, 1, 2, 4, 5, 6, 8, 9, 10, 12>>
SplitX == <<3, 9, 0, 3, 0, 0, 9, 3, 0, 9>>
SplitY == <<1, 7, 0, 1, 0, 0, 7, 1, 0, 7>>

IngestSplit ==
    /\ ingested < Len(SplitX)
    /\ processGaze(SplitT[ingested + 1], Num(SplitX[ingested + 1]),
                   Num(SplitY[ingested + 1]), 0, FALSE)

NextSplit ==
    \/ IngestSplit
    \/ preprocessData

SpecSplit == Init /\ [][NextSplit]_vars

\* The mixed specification: a stream of samples 10 ms apart with shallow
\* and deep drops, the caller's line changes, and preprocessData (as called
\* by uploadToCloud, exportCSV or detectLinesMobile) between any two samples.
MixedSamples == {[dt |-> 10, x |-> 20], [dt |-> 10, x |-> 15],
                 [dt |-> 10, x |-> 0]}
MixedSteady == [dt |-> 10, x |-> 20]

MixedSamplesAt(n) ==
    IF n < MIN_SAMPLES - 2 THEN {MixedSteady} ELSE MixedSamples

IngestMixed ==
    \E g \in MixedSamplesAt(ingested) :
        /\ ingested < MaxMixedSamples
        /\ processGaze(clock + g.dt, Num(g.x), Num(1), 0, FALSE)

NextMixed ==
    \/ IngestMixed
    \/ SetLine
    \/ preprocessData

SpecMixed == Init /\ [][NextMixed]_vars

\* The smoothing specification: a stream whose samples all have the same
\* position, chosen by the first sample, with preprocessData at any point.
ConstantSamples == {[x |-> x, y |-> y] : x \in {3, 300}, y \in {1, 7}}

IngestConstant ==
    \E c \in ConstantSamples :
        /\ ingested < MaxSmoothSamples
        /\ data # <<>> => (data[1].x = Num(c.x) /\ data[1].y = Num(c.y))
        /\ processGaze(clock + SteadySample.dt, Num(c.x), Num(c.y), 0, FALSE)

NextSmooth ==
    \/ IngestConstant
    \/ preprocessData

SpecSmooth == Init /\ [][NextSmooth]_vars

\* The rewind specification: Date.now() advances by 100 ms or falls back by
\* 400 ms between calls, the gaze moves between three horizontal positions
\* (a drop of 30 in 100 ms is a shallow valley, a drop of 270 or 300 a deep
\* one), and the caller moves the line index forward.
RewindSamples ==
    {[step |-> step, x |-> x] : step \in {100, -400}, x \in {300, 270, 0}}

RewindSamplesAt(n) ==
    IF n < MIN_SAMPLES - 2 THEN {[step |-> SteadySample.dt, x |-> SteadySample.x]}
    ELSE RewindSamples

IngestRewind ==
    \E g \in RewindSamplesAt(ingested) :
        /\ ingested < MaxRewindSamples
        /\ clock + g.step >= 0
        /\ processGaze(clock + g.step, Num(g.x), Num(1), 0, FALSE)

NextRewind ==
    \/ IngestRewind
    \/ SetLine

SpecRewind == Init /\ [][NextRewind]_vars

\* The reading specification: a fixed stream in which the gaze sweeps back
\* twice (the drops at t = 300 and t = 1500), while the caller moves the
\* line index forward through a text of four lines and resetTriggers and
\* the scheduled speed updates run at any point.
ReadingT == <<0, 100, 200, 300, 400, 1000, 1500, 1700>>
ReadingX == <<300, 300, 300, 0, 0, 300, 0, 0>>

IngestReading ==
    /\ ingested < Len(ReadingX)
    /\ processGaze(ReadingT[ingested + 1], Num(ReadingX[ingested + 1]),
                   Num(1), 0, FALSE)

TurnLine ==
    \E l \in Lines \cup {Num(Len(RendererLines) - 1)} :
        /\ MovesForward(context.lineIndex, l)
        /\ setContext([lineIndex |-> l])

NextReading ==
    \/ IngestReading
    \/ TurnLine
    \/ resetTriggers
    \/ RunTimer

SpecReading == Init /\ [][NextReading]_vars

\* The timely specification: the reading stream in real time.  A scheduled
\* speed update runs about 100 ms after its event, so at most one sample is
\* ingested between an event and its update: a sample is ingested only when
\* every scheduled update belongs to an event of the newest sample (or the
\* buffer has just been emptied).  reset and resetTriggers come at any point.
UpdatesOnTime ==
    IF data = <<>> THEN TRUE
    ELSE \A k \in 1..Len(timers) : timers[k].now = data[Len(data)].t

IngestTimely ==
    /\ UpdatesOnTime
    /\ IngestReading

NextTimely ==
    \/ IngestTimely
    \/ TurnLine
    \/ resetTriggers
    \/ reset
    \/ RunTimer

SpecTimely == Init /\ [][NextTimely]_vars

\* The movement specification: a stream of samples 10 ms apart at one
\* position whose eyemovementState is 0 (fixation), 2 (saccade) or anything
\* else (here 1), with clearGazeData at any point.
MovementStates == {0, 1, 2}

IngestMoving ==
    \E ems \in MovementStates :
        /\ ingested < MaxMovingSamples
        /\ processGaze(clock + 10, Num(20), Num(1), ems, FALSE)

NextMoving ==
    \/ IngestMoving
    \/ clearGazeData

SpecMoving == Init /\ [][NextMoving]_vars

\* ------------------------------------------------------ CalibrationManager

\* The timer delays, in ms.
WATCHDOG_MS == 700
SAFETY_MS == 5000
FINISH_DELAY_MS == 2000

\* clearTimeout of the timer of a kind; setTimeout of one.
ClearTimeout(pending, kind) == {t \in pending : t.kind # kind}
SetTimeout(pending, kind, ms) == pending \cup {[kind |-> kind, left |-> ms]}

\* finishSequence(): running = false, both timers cleared, and
\* ctx.onCalibrationFinish called.
finishSequence(c) ==
    [c EXCEPT !.running = FALSE,
              !.watchdogTimer = FALSE,
              !.safetyTimer = FALSE,
              !.pending = ClearTimeout(ClearTimeout(@, "watchdog"), "safety"),
              !.finishCalls = @ + 1]

\* The next-point callback of the SDK, once per point of the run and before
\* the SDK has finished.
OnCalibrationNextPoint ==
    /\ calibration.pointCount < MaxPoints
    /\ ~calibration.sdkFinished
    /\ calibration' =
         [calibration EXCEPT
            !.isFinishing = FALSE,
            !.pointCount = @ + 1,
            !.watchdogTimer = FALSE,
            !.safetyTimer = FALSE,
            !.pending = ClearTimeout(ClearTimeout(@, "watchdog"), "safety"),
            !.running = TRUE,
            !.progress = 0]
    /\ UNCHANGED gazeVars

\* The progress values the SDK reports, in hundredths.
Progresses == {50, 80, 100}

\* The progress callback of the SDK: nothing while finishing; otherwise the
\* 5 s safety timer is set above 0.7 unless the field holds a handle, and
\* the 700 ms watchdog is set anew at 1.0 and cleared below.
OnCalibrationProgress ==
    \E progress \in Progresses :
        /\ calibration.pointCount >= 1
        /\ calibration' =
             IF calibration.isFinishing THEN calibration
             ELSE LET safety == progress > 70 /\ ~calibration.safetyTimer
                      p1 == IF safety
                            THEN SetTimeout(calibration.pending, "safety",
                                            SAFETY_MS)
                            ELSE calibration.pending
                      p2 == IF progress >= 100
                            THEN SetTimeout(ClearTimeout(p1, "watchdog"),
                                            "watchdog", WATCHDOG_MS)
                            ELSE ClearTimeout(p1, "watchdog")
                  IN  [calibration EXCEPT
                         !.progress = progress,
                         !.safetyTimer = @ \/ safety,
                         !.watchdogTimer = progress >= 100,
                         !.pending = p2]
        /\ UNCHANGED gazeVars

\* The finish callback of the SDK, once per run: isFinishing = true and
\* finishSequence in 2 s.
OnCalibrationFinished ==
    /\ calibration.pointCount >= 1
    /\ ~calibration.sdkFinished
    /\ calibration' =
         [calibration EXCEPT
            !.isFinishing = TRUE,
            !.progress = 100,
            !.pending = SetTimeout(@, "finish", FINISH_DELAY_MS),
            !.sdkFinished = TRUE]
    /\ UNCHANGED gazeVars

\* The pending timer of a kind whose time is up.
Due(kind) == [kind |-> kind, left |-> 0]

\* The safety timer fires: finishSequence if still running.  The handle
\* stays in the field.
SafetyTimeout ==
    /\ Due("safety") \in calibration.pending
    /\ LET c == [calibration EXCEPT !.pending = @ \ {Due("safety")}]
       IN  calibration' = IF c.running THEN finishSequence(c) ELSE c
    /\ UNCHANGED gazeVars

\* The watchdog fires: the field is nulled, then finishSequence if running
\* and a point was shown.
WatchdogTimeout ==
    /\ Due("watchdog") \in calibration.pending
    /\ LET c == [calibration EXCEPT !.pending = @ \ {Due("watchdog")},
                                    !.watchdogTimer = FALSE]
       IN  calibration' = IF c.running /\ c.pointCount >= 1
                          THEN finishSequence(c) ELSE c
    /\ UNCHANGED gazeVars

\* The 2 s delay of the finish callback is over: finishSequence.
FinishDelayElapsed ==
    /\ Due("finish") \in calibration.pending
    /\ calibration' =
         finishSequence([calibration EXCEPT !.pending = @ \ {Due("finish")}])
    /\ UNCHANGED gazeVars

\* Time passes, by 100 or 500 ms, up to the moment the next pending timer
\* is due.
Elapses == {100, 500}

TimePasses ==
    \E ms \in Elapses :
        /\ calibration.pending # {}
        /\ \A t \in calibration.pending : t.left >= ms
        /\ calibration' =
             [calibration EXCEPT
                !.pending = {[t EXCEPT !.left = @ - ms] : t \in @}]
        /\ UNCHANGED gazeVars

NextCalibration ==
    \/ OnCalibrationNextPoint
    \/ OnCalibrationProgress
    \/ OnCalibrationFinished
    \/ SafetyTimeout
    \/ WatchdogTimeout
    \/ FinishDelayElapsed
    \/ TimePasses

SpecCalibration == Init /\ [][NextCalibration]_vars

\* The raising specification: the reading stream with a visual-effect
\* handler that may raise at any fire.
IngestRaising ==
    \E throws \in BOOLEAN :
        /\ ingested < Len(ReadingX)
        /\ processGaze(ReadingT[ingested + 1], Num(ReadingX[ingested + 1]),
                       Num(1), 0, throws)

NextRaising ==
    \/ IngestRaising
    \/ TurnLine
    \/ RunTimer

SpecRaising == Init /\ [][NextRaising]_vars

\* Scenario A: the samples t = 0, 33, 66, 99, 132 with x = 100, 150, 200,
\* 40, 35, in this order, while the caller moves the line index forward.
ScenarioT == <<0, 33, 66, 99, 132>>
ScenarioX == <<100, 150, 200, 40, 35>>

IngestScenario ==
    /\ ingested < Len(ScenarioX)
    /\ processGaze(ScenarioT[ingested + 1], Num(ScenarioX[ingested + 1]),
                   Num(1), 0, FALSE)

NextScenario ==
    \/ IngestScenario
    \/ SetLine
    \/ ClearLine

SpecScenario == Init /\ [][NextScenario]_vars

\* ------------------------------------------------------------- Properties

\* C1: whenever processGaze has returned, the sample buffer holds at most
\* MAX_BUFFER_SIZE samples, after any sequence of processGaze,
\* preprocessData, setContext, resetTriggers, clearGazeData and reset.
BufferBounded == Len(data) <= MAX_BUFFER_SIZE

\* C1 witness: the processGaze call that just returned trimmed a full buffer.
BufferTrimmed == det.trimmed > 0 /\ Len(data) = MAX_BUFFER_SIZE

AllEventsSpaced ==
    \A i, j \in 1..Len(allFired) :
        i < j => allFired[j].t - allFired[i].t >= COOLDOWN_MS

\* C3: any two fired events of the same content unit are at least 500 ms
\* apart; a qualifying cascade less than 500 ms after an event of the unit
\* does not fire.
UnitEventsSpaced ==
    \A i, j \in 1..Len(pangLog) :
        i < j => pangLog[j].t - pangLog[i].t >= COOLDOWN_MS

\* C3 witness: a cascade that passes every other check is rejected by the
\* cooldown.
CooldownRejectsCascade ==
    /\ det.result = "cooldown"
    /\ det.valley
    /\ WithinCascadeWindow(det.sincePeak)
    /\ HasLine(det.line)
    /\ ~IsStartLine(det.line)
    /\ ~MaxReachBlocks(det.line, maxLineIndexReached)

\* C4: a velocity valley whose sample time is 600 ms or more away from the
\* most recently recorded position peak never fires.
FarValleyNeverFires ==
    det.result = "fired" => Abs(det.sincePeak) < CASCADE_WINDOW_MS

\* C4 witness: a deep valley past the gates is rejected by the window.
WindowRejectsValley ==
    /\ det.result = "window"
    /\ det.valley
    /\ Abs(det.sincePeak) >= CASCADE_WINDOW_MS

\* C5: no event ever fires on a sample whose line is 0.
NoEventOnStartLine ==
    /\ \A i \in 1..Len(data) : data[i].didFire => data[i].line # Num(0)
    /\ det.result = "fired" => det.line # Num(0)

\* C5 witness: a cascade inside the window on a sample of line 0 is rejected.
StartLineRejectsCascade ==
    /\ det.result = "start_line"
    /\ det.valley
    /\ det.line = Num(0)

\* Scenario A as the buffer holds it: the five samples with the lines
\* 0, 0, 0, 1, 1.
ScenarioLines == <<0, 0, 0, 1, 1>>

ScenarioAFed ==
    /\ Len(data) = Len(ScenarioX)
    /\ \A i \in 1..Len(data) :
        /\ data[i].t = ScenarioT[i]
        /\ data[i].x = Num(ScenarioX[i])
        /\ data[i].line = Num(ScenarioLines[i])

\* C6 as stated: feeding Scenario A to a fresh processor leaves exactly one
\* event with targetLine 0 in the event log.
ScenarioAFiresOnce ==
    ScenarioAFed => (Len(pangLog) = 1 /\ pangLog[1].line = 0)

\* C7 as stated: a cascade that passes the gates and the window on a sample
\* whose line is undefined queues a pending event with that sample's time.
NullLineCascadeQueued ==
    det.result = "no_line" =>
        (pendingReturnSweep.kind = "object" /\ pendingReturnSweep.t = det.t)

ReachForgottenAfterReset ==
    det.result = "max_reach" =>
        \E i \in 1..Len(pangLog) : det.line.n <= pangLog[i].line + 1

\* C9 witness: the first event of a unit fires on a line that is not above
\* the line an earlier unit had reached.
FiredBelowEarlierReach ==
    /\ det.result = "fired"
    /\ Len(pangLog) = 1
    /\ Len(allFired) >= 2
    /\ allFired[Len(allFired) - 1].line >= pangLog[1].line

\* C10: resetTriggers leaves wpm, validWordSum, validTimeSum, the sample
\* buffer, the time origin and the persisted context unchanged, and clears
\* the cooldown and peak timers, the pending event, the max-reach guard and
\* the event log of the unit.
ResetTriggersFrame ==
    [][resetTriggers =>
        /\ wpm' = wpm
        /\ validWordSum' = validWordSum
        /\ validTimeSum' = validTimeSum
        /\ data' = data
        /\ firstTimestamp' = firstTimestamp
        /\ context' = context
        /\ lastTriggerTime' = 0
        /\ lastPosPeakTime' = 0
        /\ pendingReturnSweep'.kind = "null"
        /\ maxLineIndexReached' = -1
        /\ pangLog' = <<>>]_vars

\* C10 witness: resetTriggers has acted on a manager with a positive wpm, a
\* non-empty buffer and a fired event.
ResetWithSpeedState ==
    /\ pangCountInPara = Num(0)
    /\ pangLog = <<>>
    /\ allFired # <<>>
    /\ wpm > 0
    /\ validWordSum > 0
    /\ data # <<>>

\* The processor state of a freshly constructed manager.  A pending sweep
\* that is undefined and one that is null read alike everywhere.
Fresh ==
    /\ data = <<>>
    /\ firstTimestamp = Null
    /\ context = [lineIndex |-> Undefined, paraIndex |-> Undefined,
                  wordIndex |-> Undefined]
    /\ lastTriggerTime = 0
    /\ lastPosPeakTime = 0
    /\ firstContentTime = Null
    /\ maxLineIndexReached = -1
    /\ pendingReturnSweep.kind # "object"
    /\ lastUploadedIndex = 0
    /\ lastPreprocessIndex = 0
    /\ searchStartIndex = 0
    /\ pangLog = <<>>
    /\ wpm = 0
    /\ validWordSum = 0
    /\ validTimeSum = 0
    /\ wpmData = <<>>
    /\ lastRSTime = 0
    /\ lastRSLine = -1
    /\ pangCountInPara = Undefined
    /\ prevRSTime = Undefined

\* C11 as stated: reset returns every piece of processor state to its
\* freshly constructed value.
ResetRestoresFresh == [][reset => Fresh']_vars

\* C12: clearGazeData empties the buffer and leaves the time origin, the
\* detector state and the speed state unchanged; the first sample ingested
\* into the emptied buffer gets t = its absolute timestamp minus the origin
\* recorded before the call.
ClearKeepsOrigin ==
    [][/\ clearGazeData =>
            /\ data' = <<>>
            /\ firstTimestamp' = firstTimestamp
            /\ UNCHANGED <<guardVars, eventVars, speedVars>>
       /\ (data = <<>> /\ firstTimestamp # Null /\ data' # <<>>) =>
            /\ firstTimestamp' = firstTimestamp
            /\ data'[1].t = clock' - firstTimestamp.n]_vars

\* C12 witness: the only buffered sample was ingested after clearGazeData
\* and its t continues the timeline.
TimelineContinuesAfterClear ==
    /\ Len(data) = 1
    /\ data[1].t > 0
    /\ data[1].t = clock - firstTimestamp.n

\* C13: immediately after a trim by processGaze, each of lastPreprocessIndex,
\* lastUploadedIndex and searchStartIndex is between 0 and the buffer length.
CursorsInRangeAfterTrim ==
    det.trimmed > 0 =>
        \A c \in {lastPreprocessIndex, lastUploadedIndex, searchStartIndex} :
            0 <= c /\ c <= Len(data)

\* C13 witness: a trim has just shifted three cursors that stood at the end
\* of the full buffer.
TrimShiftedCursors ==
    /\ det.trimmed > 0
    /\ lastPreprocessIndex = MAX_BUFFER_SIZE - det.trimmed
    /\ lastUploadedIndex = MAX_BUFFER_SIZE - det.trimmed
    /\ searchStartIndex = MAX_BUFFER_SIZE - det.trimmed

\* C14: every processGaze call leaves exactly one new sample, carrying the
\* input's x and y, at the end of the buffer, whether the coordinates are
\* valid, NaN or the (0,0) sentinel and whether or not the visual-effect
\* handler raises in the detection stage.
SampleAlwaysKept ==
    [][\A g \in FaultSamples \cup FaultSamplesAt(0), throws \in BOOLEAN :
          processGaze(clock + g.dt, g.x, g.y, 0, throws) =>
              /\ Len(data') = Len(data) + 1 - det'.trimmed
              /\ data'[Len(data')].x = g.x
              /\ data'[Len(data')].y = g.y
              /\ data'[Len(data')].t = clock' - firstTimestamp'.n
              /\ \A i \in 1..Len(data) :
                    i > det'.trimmed =>
                        /\ data'[i - det'.trimmed].t = data[i].t
                        /\ data'[i - det'.trimmed].x = data[i].x
                        /\ data'[i - det'.trimmed].y = data[i].y]_vars

\* C14 witness: the handler raised while the detector fired on the newest
\* sample, and the sample is in the buffer.
SampleKeptThroughThrow ==
    /\ det.result = "threw"
    /\ data[Len(data)].didFire
    /\ data[Len(data)].t = det.t

\* C15: a sample whose absolute timestamp is earlier than the recorded
\* origin makes that timestamp the origin and is stored with t = 0; every
\* stored sample has t >= 0.
RegressionRestartsOrigin ==
    [][\A ts \in Clocks :
          processGaze(ts, Num(SteadySample.x), Num(1), 0, FALSE) =>
              /\ (firstTimestamp # Null /\ ts < firstTimestamp.n) =>
                    /\ firstTimestamp' = Num(ts)
                    /\ data'[Len(data')].t = 0
              /\ \A i \in 1..Len(data') : data'[i].t >= 0]_vars

\* C15 witness: the newest sample restarted the timeline after a sample
\* with a later absolute timestamp.
TimelineRestarted ==
    /\ Len(data) >= 2
    /\ data[Len(data)].t = 0
    /\ data[Len(data) - 1].t > 0
    /\ firstTimestamp = Num(clock)

\* C16: while the absolute timestamps handed to processGaze never decrease,
\* the t values of the buffered samples never decrease in index order,
\* across trims, resetTriggers and clearGazeData.
TimesNonDecreasing ==
    \A i \in 1..(Len(data) - 1) : data[i].t <= data[i + 1].t

\* C16 witness: after a resetTriggers and a trim the buffer holds two
\* samples of the same millisecond.
TrimmedWithEqualTimes ==
    /\ det.trimmed > 0
    /\ searchStartIndex > 0
    /\ \E i \in 1..(Len(data) - 1) : data[i].t = data[i + 1].t

\* C17: the line, paragraph and word stored on an ingested sample are the
\* values most recently passed for each field to setContext; a field absent
\* from a setContext call keeps its value, and setContext never changes the
\* samples already in the buffer.
ContextLastWriteWins ==
    [][/\ ingested' = ingested + 1 =>
            /\ data'[Len(data')].line = context.lineIndex
            /\ data'[Len(data')].pIdx = context.paraIndex
            /\ data'[Len(data')].wIdx = context.wordIndex
            /\ context' = context
            /\ \A i \in 1..Len(data) :
                  /\ data'[i].line = data[i].line
                  /\ data'[i].pIdx = data[i].pIdx
                  /\ data'[i].wIdx = data[i].wIdx
       /\ \A ctx \in Contexts :
            setContext(ctx) =>
                /\ data' = data
                /\ \A k \in Fields :
                      context'[k] = IF k \in DOMAIN ctx THEN ctx[k]
                                    ELSE context[k]]_vars

\* C17 witness: two buffered samples differ in the line that was passed
\* between them, share the paragraph passed before both, and carry no word.
ContextPersistedPerField ==
    /\ Len(data) >= 2
    /\ data[1].line = Num(1)
    /\ data[2].line = Num(2)
    /\ data[1].pIdx = Num(1)
    /\ data[2].pIdx = Num(1)
    /\ data[2].wIdx = Undefined

\* The samples a preprocessData call visits: none when it returns early,
\* else those from startIdx on (i is 1-based).
Visited(i) ==
    /\ Len(data) >= 2
    /\ StartIdx(lastPreprocessIndex) < Len(data) - 1
    /\ i > StartIdx(lastPreprocessIndex)
    /\ i <= Len(data)

\* A visited missing sample with a valid sample on both sides.
GapWithBothSides(i) ==
    /\ Visited(i)
    /\ IsMissing(data[i])
    /\ PrevValid(data, i - 1) >= 1
    /\ NextValid(data, i + 1) <= Len(data)

\* min(a, b) <= v <= max(a, b)
Between(v, a, b) ==
    \/ NLe(a, v) /\ NLe(v, b)
    \/ NLe(b, v) /\ NLe(v, a)

\* C18 as stated: the x and y written for a missing sample with a valid
\* sample on both sides lie between the two neighbours' values, for all
\* timestamps, equal ones included.
InterpolationWithinNeighbours ==
    [][preprocessData =>
        \A i \in 1..Len(data) :
            GapWithBothSides(i) =>
                LET p == data[PrevValid(data, i - 1)]
                    n == data[NextValid(data, i + 1)]
                IN  /\ Between(data'[i].x, p.x, n.x)
                    /\ Between(data'[i].y, p.y, n.y)]_vars

OneSidedGapHeld ==
    [][preprocessData =>
        \A i \in 1..Len(data) :
            LET pi == PrevValid(data, i - 1)
                ni == NextValid(data, i + 1)
            IN  (Visited(i) /\ IsMissing(data[i])) =>
                    /\ (pi >= 1 /\ ni > Len(data)) =>
                          (data'[i].x = data[pi].x /\ data'[i].y = data[pi].y)
                    /\ (pi < 1 /\ ni <= Len(data)) =>
                          (data'[i].x = data[ni].x /\ data'[i].y = data[ni].y)]_vars

\* |g - c| <= c * 2^-49 for a double g and a natural number c
WithinRounding(g, c) ==
    LET scaled == BShl(BFromInt(c), 0 - g.e)
        diff == IF BLt(g.m, scaled) THEN BSub(scaled, g.m)
                ELSE BSub(g.m, scaled)
    IN  g.e < 0 /\ ~BLt(scaled, BShl(diff, 49))

\* The buffer is constant in x and in y.
ConstantBuffer ==
    \A i \in 1..Len(data) : data[i].x = data[1].x /\ data[i].y = data[1].y

\* C21 as stated: on a buffer constant in x and y, preprocessData writes
\* gx = c and gy = c at every index it visits, the truncated windows at both
\* ends included.
ConstantSmoothedExactly ==
    [][(preprocessData /\ ConstantBuffer) =>
        \A i \in 1..Len(data) :
            Visited(i) =>
                /\ SmoothedValue(data, i, "x") = DFromInt(data[1].x.n)
                /\ SmoothedValue(data, i, "y") = DFromInt(data[1].y.n)]_vars

\* C21 amended: the weighted mean of the window, renormalised by the weights
\* in range, is c in exact arithmetic, and the double the code writes
\* differs from c by rounding only: |gx - c| <= c * 2^-49, likewise gy.
ConstantSmoothedWithinRounding ==
    [][(preprocessData /\ ConstantBuffer) =>
        \A i \in 1..Len(data) :
            Visited(i) =>
                /\ data'[i].gx = data[1].x
                /\ data'[i].gy = data[1].y
                /\ WithinRounding(SmoothedValue(data, i, "x"), data[1].x.n)
                /\ WithinRounding(SmoothedValue(data, i, "y"), data[1].y.n)]_vars

\* C21 witness: a constant buffer of full length, smoothed at every index:
\* two truncated windows at each end and full windows between.
ConstantBufferSmoothed ==
    /\ Len(data) = MaxSmoothSamples
    /\ lastPreprocessIndex = Len(data)
    /\ \A i \in 1..Len(data) : data[i].gx = data[1].x /\ data[i].gy = data[1].y

\* The velocity the claim gives sample i of the buffer d, from the positions
\* px, py of the sample and qx, qy of its predecessor: zero for the first
\* sample and for a time difference <= 0, else the quotient.
ClaimedVelocity(d, i, px, py, qx, qy) ==
    IF i = 1 \/ d[i].t - d[i - 1].t <= 0
    THEN [vx |-> Num(0), vy |-> Num(0)]
    ELSE [vx |-> NDiv(NSub(px, qx), Num(d[i].t - d[i - 1].t)),
          vy |-> NDiv(NSub(py, qy), Num(d[i].t - d[i - 1].t))]

HasVelocity(e, v) == e.vx = v.vx /\ e.vy = v.vy

\* C22 as stated: the velocity of the sample processGaze has appended, and of
\* every sample preprocessData has visited, is zero for the first sample of
\* the session and for a time difference <= 0 to the predecessor, and else
\* the position difference (raw in processGaze, smoothed in preprocessData)
\* divided by the time difference.
VelocityZeroOrQuotient ==
    [][/\ ingested' = ingested + 1 =>
            LET n == Len(data')
            IN  HasVelocity(data'[n],
                    ClaimedVelocity(data', n, data'[n].x, data'[n].y,
                        IF n > 1 THEN data'[n - 1].x ELSE Num(0),
                        IF n > 1 THEN data'[n - 1].y ELSE Num(0)))
       /\ preprocessData =>
            \A i \in 1..Len(data) :
                Visited(i) =>
                    HasVelocity(data'[i],
                        ClaimedVelocity(data', i, data'[i].gx, data'[i].gy,
                            IF i > 1 THEN data'[i - 1].gx ELSE Num(0),
                            IF i > 1 THEN data'[i - 1].gy ELSE Num(0)))]_vars

\* The same without the first sample of the session: every later sample has
\* the velocity the claim gives it.
LaterVelocityZeroOrQuotient ==
    [][/\ (ingested' = ingested + 1 /\ Len(data') > 1) =>
            LET n == Len(data')
            IN  HasVelocity(data'[n],
                    ClaimedVelocity(data', n, data'[n].x, data'[n].y,
                                    data'[n - 1].x, data'[n - 1].y))
       /\ preprocessData =>
            \A i \in 2..Len(data) :
                Visited(i) =>
                    HasVelocity(data'[i],
                        ClaimedVelocity(data', i, data'[i].gx, data'[i].gy,
                                        data'[i - 1].gx, data'[i - 1].gy))]_vars

\* C23: an event fires only on a sample whose time is not earlier than
\* firstContentTime, and only when a sample carrying a numeric line has been
\* ingested since construction, reset or resetTriggers.
NoEventBeforeContent ==
    [][Len(allFired') > Len(allFired) =>
        /\ firstContentTime' # Null
        /\ firstContentTime'.n <= allFired'[Len(allFired')].t
        /\ \E i \in (searchStartIndex' + 1)..Len(data') :
               IsFinite(data'[i].line)]_vars

\* C23 witness: a qualifying cascade on a sample earlier than
\* firstContentTime, after the clock fell back, was rejected by the content
\* gate.
EarlySampleRejected ==
    /\ det.result = "content_gate"
    /\ det.valley
    /\ WithinCascadeWindow(det.sincePeak)
    /\ HasLine(det.line) /\ ~IsStartLine(det.line)
    /\ ~MaxReachBlocks(det.line, maxLineIndexReached)
    /\ firstContentTime # Null
    /\ det.t < firstContentTime.n

\* The velocities the detector reads from the three newest samples.
NewestVelocities ==
    LET n == Len(data)
    IN  [v0 |-> repairVX(data[n].vx), v1 |-> repairVX(data[n - 1].vx),
         v2 |-> repairVX(data[n - 2].vx)]

\* C24: when the immediate path has fired, the velocities of the three
\* newest samples satisfy v2 > v1, v1 < v0 and v1 < -0.4, and the event
\* logged has type Immediate and velocity v1.
FiredOnVelocityValley ==
    det.result = "fired" =>
        LET v == NewestVelocities
            event == pangLog[Len(pangLog)]
        IN  /\ NGt(v.v2, v.v1)
            /\ NLt(v.v1, v.v0)
            /\ NLt(v.v1, Rat(-4, 10))
            /\ event.type = "Immediate"
            /\ event.vx = v.v1
            /\ event.t = data[Len(data)].t

\* C24 witness: the immediate path has fired on a deep valley, v1 = -3
\* between v2 = 0 and v0 = 0, and logged -3.
FiredOnDeepValley ==
    /\ det.result = "fired"
    /\ NewestVelocities = [v0 |-> Num(0), v1 |-> Num(-3), v2 |-> Num(0)]
    /\ pangLog[Len(pangLog)].vx = Num(-3)


\* ------------------------------------------------------- speed update claims

\* The speed state a skipped update leaves alone.
Accumulators == <<validWordSum, validTimeSum, wpm, wpmData>>

\* The scheduled update about to run belongs to the first event logged since
\* the last resetTriggers: resetTriggers has run (it makes pangCountInPara a
\* number) and the event heads the log that resetTriggers emptied.
FirstEventSinceResetTriggers ==
    /\ timers # <<>>
    /\ IsFinite(pangCountInPara)
    /\ pangLog # <<>>
    /\ pangLog[1].t = Head(timers).now
    /\ pangLog[1].line = Head(timers).targetLine

\* C25 as stated: the deferred speed update leaves validWordSum,
\* validTimeSum, wpm and the speed log unchanged when the event is the first
\* one fired since the last resetTriggers, when targetLine is 0, or when the
\* computed duration is below 100 ms.
SkippedUpdateLeavesSpeed ==
    [][(/\ RunTimer
        /\ \/ FirstEventSinceResetTriggers
           \/ Head(timers).targetLine = 0
           \/ Duration(Head(timers).targetLine, Head(timers).now)
                < MIN_DURATION_MS)
       => UNCHANGED Accumulators]_vars

\* The part of C25 about line 0 and short durations.
LineZeroOrShortLeavesSpeed ==
    [][(/\ RunTimer
        /\ \/ Head(timers).targetLine = 0
           \/ Duration(Head(timers).targetLine, Head(timers).now)
                < MIN_DURATION_MS)
       => UNCHANGED Accumulators]_vars

\* A step that accumulates: the accumulators or the speed change.
Accumulates ==
    \/ validWordSum' # validWordSum
    \/ validTimeSum' # validTimeSum
    \/ wpm' # wpm

\* What an accumulating step adds: the word count of the target line of the
\* scheduled update that runs, at least 1, and its duration, at least the
\* minimum.
AddsLineAndDuration ==
    /\ timers # <<>>
    /\ timers' = Tail(timers)
    /\ LET line == Head(timers).targetLine
       IN  /\ validWordSum' - validWordSum = RendererLines[line + 1]
           /\ validWordSum' - validWordSum >= 1
           /\ validTimeSum' - validTimeSum = Duration(line, Head(timers).now)
           /\ validTimeSum' - validTimeSum >= MIN_DURATION_MS

\* w is an integer nearest to words * 60000 / time; at a tie either
\* neighbour.
NearestToQuotient(w, words, time) ==
    2 * Abs(w * time - words * MS_PER_MINUTE) <= time

\* C26, amended: wpm is 0 while nothing has been accumulated and otherwise
\* an integer nearest to validWordSum * 60000 / validTimeSum of the current
\* accumulators (when the quotient lies halfway between two integers, either
\* of them); each accumulating update adds the line's word count (>= 1) to
\* validWordSum and its duration (>= 100 ms) to validTimeSum.
SpeedNearestToQuotient ==
    /\ [](IF validWordSum = 0 /\ validTimeSum = 0 THEN wpm = 0
          ELSE /\ validWordSum > 0
               /\ validTimeSum > 0
               /\ NearestToQuotient(wpm, validWordSum, validTimeSum))
    /\ [][Accumulates => AddsLineAndDuration]_vars

\* C26 as stated: wpm is 0 if nothing has been accumulated and otherwise
\* round(validWordSum * 60000 / validTimeSum); each accumulating update adds
\* the line's word count (>= 1) and its duration (>= 100 ms).
SpeedIsRoundedQuotient ==
    /\ [](IF validWordSum = 0 /\ validTimeSum = 0 THEN wpm = 0
          ELSE /\ validWordSum > 0
               /\ validTimeSum > 0
               /\ wpm = RoundedExactWPM(validWordSum, validTimeSum))
    /\ [][Accumulates => AddsLineAndDuration]_vars

\* C26 witness: an update has accumulated a line of 3 words read in 1600 ms
\* and the quotient 3 * 60000 / 1600 = 112.5 lies halfway between two
\* integers.
AccumulatedToHalfway ==
    /\ Len(wpmData) = 1
    /\ validWordSum = 3
    /\ validTimeSum = 1600
    /\ 2 * validWordSum * MS_PER_MINUTE = (2 * wpm + 1) * validTimeSum

\* A step in which a speed update takes effect: an accumulator grows, the
\* speed changes to a computed value or the speed log grows.
SpeedUpdated ==
    \/ validWordSum' > validWordSum
    \/ validTimeSum' > validTimeSum
    \/ wpm' # wpm /\ wpm' # 0
    \/ Len(wpmData') > Len(wpmData)

\* C27: the speed update of a fired event never executes inside the
\* processGaze call that fired it: a processGaze call leaves validWordSum,
\* validTimeSum, wpm and the speed log unchanged, and a speed update takes
\* effect only in the scheduled step, which ingests no sample and runs the
\* update of an event fired in an earlier step.
SpeedUpdateDeferred ==
    [][/\ ingested' # ingested => UNCHANGED Accumulators
       /\ SpeedUpdated =>
            /\ timers # <<>>
            /\ timers' = Tail(timers)
            /\ \E k \in 1..Len(allFired) :
                  /\ allFired[k].t = Head(timers).now
                  /\ allFired[k].line = Head(timers).targetLine
            /\ UNCHANGED <<ingested, data, allFired, pangLog>>]_vars

\* C27 witness: an event has fired, further samples have been ingested since
\* and its speed update, which will accumulate, is still scheduled.
UpdatePendingAcrossSamples ==
    /\ timers # <<>>
    /\ data # <<>>
    /\ data[Len(data)].t > Head(timers).now
    /\ Head(timers).targetLine < Len(RendererLines) - 1
    /\ ~SkipsUpdate(Duration(Head(timers).targetLine, Head(timers).now),
                    Head(timers).targetLine)

\* The scheduled update about to run belongs to the k-th event of the unit's
\* log, and the event logged before it was for the preceding line.
FollowsPrecedingLine(k) ==
    /\ timers # <<>>
    /\ k \in 2..Len(pangLog)
    /\ pangLog[k].t = Head(timers).now
    /\ pangLog[k].line = Head(timers).targetLine
    /\ pangLog[k - 1].line = pangLog[k].line - 1

\* C28 as stated: when an event for targetLine L fires and the previously
\* fired event of the same content unit was for targetLine L-1, the duration
\* the speed update credits to line L equals the difference between the two
\* events' timestamps.
ChainedDurationCredited ==
    [][\A k \in 1..Len(pangLog) :
          (/\ RunTimer
           /\ FollowsPrecedingLine(k)
           /\ validTimeSum' # validTimeSum)
          => validTimeSum' - validTimeSum = pangLog[k].t - pangLog[k - 1].t]_vars

\* ------------------------------------------------------ buffer trim claims

\* Samples a and b are the same reading.
SameSample(a, b) == a.t = b.t /\ a.x = b.x /\ a.y = b.y /\ a.line = b.line

\* C29: when an append makes the buffer exceed MAX_BUFFER_SIZE, exactly the
\* floor(0.1 * MAX_BUFFER_SIZE) oldest samples are removed in that same step,
\* the remaining samples keep their order with the just-appended sample last,
\* and each cursor becomes max(0, old value - trimmed count), so a cursor that
\* pointed at a retained sample still points at the same sample.
TrimDropsOldestTenth ==
    [][(ingested' = ingested + 1 /\ Len(data) + 1 > MAX_BUFFER_SIZE) =>
         LET k == MAX_BUFFER_SIZE \div 10
             cursors == {<<lastUploadedIndex, lastUploadedIndex'>>,
                         <<lastPreprocessIndex, lastPreprocessIndex'>>,
                         <<searchStartIndex, searchStartIndex'>>}
         IN  /\ Len(data') = Len(data) + 1 - k
             /\ \A i \in 1..(Len(data') - 1) : SameSample(data'[i], data[i + k])
             /\ data'[Len(data')].t = clock' - firstTimestamp'.n
             /\ \A i \in 1..(Len(data') - 1) : data'[i].t < data'[i + 1].t
             /\ \A c \in cursors :
                   /\ c[2] = IF c[1] - k > 0 THEN c[1] - k ELSE 0
                   /\ (k <= c[1] /\ c[1] < Len(data)) =>
                         SameSample(data'[c[2] + 1], data[c[1] + 1])]_vars

\* C29 witness: a trim has just run with one cursor inside the retained part
\* of the buffer, pointing at a retained sample, and another cursor that was
\* at 0 and stayed there.
TrimKeptCursorTarget ==
    /\ det.trimmed > 0
    /\ Len(data) = MAX_BUFFER_SIZE + 1 - (MAX_BUFFER_SIZE \div 10)
    /\ lastUploadedIndex > 0
    /\ lastUploadedIndex < Len(data) - 1
    /\ lastPreprocessIndex = 0

\* ----------------------------------------------------------- upload claims

\* The samples of chunk c.
ChunkSamples(c) == {c[i] : i \in 1..Len(c)}

\* Each sample is in at most one uploaded chunk.
InAtMostOneChunk ==
    \A i, j \in 1..Len(chunks) :
        i < j => ChunkSamples(chunks[i]) \cap ChunkSamples(chunks[j]) = {}

\* Every buffered sample below lastUploadedIndex is in an uploaded chunk.
CursorBehindUploaded ==
    \A i \in 1..Len(data) :
        i <= lastUploadedIndex =>
            \E k \in 1..Len(chunks) : data[i].t \in ChunkSamples(chunks[k])

\* C30 as stated: uploadToCloud puts each buffered sample into at most one
\* uploaded chunk and never advances lastUploadedIndex past a sample that was
\* not included in a chunk, even when processGaze, clearGazeData or a second
\* uploadToCloud call runs while an upload is suspended at an await.
UploadedExactlyOnce == InAtMostOneChunk /\ CursorBehindUploaded

\* ------------------------------------------------------------ cursor claims

\* C31 as stated: in every reachable state, including directly after
\* clearGazeData, resetTriggers and reset, the cursors lastPreprocessIndex,
\* lastUploadedIndex and searchStartIndex are each between 0 and the current
\* buffer length.
CursorsWithinBuffer ==
    \A c \in {lastPreprocessIndex, lastUploadedIndex, searchStartIndex} :
        0 <= c /\ c <= Len(data)

\* The part of C31 about lastPreprocessIndex and lastUploadedIndex.
BatchCursorsWithinBuffer ==
    \A c \in {lastPreprocessIndex, lastUploadedIndex} :
        0 <= c /\ c <= Len(data)

\* ------------------------------------------------------------- batch claims

\* The buffer of the batch specification as it was ingested.
IngestedBuffer ==
    [i \in 1..Len(data) |->
        [data[i] EXCEPT !.x = Num(SplitX[i]), !.y = Num(SplitY[i]),
                        !.gx = Undefined, !.gy = Undefined]]

\* The buffer a single preprocessData call over the whole buffer produces.
SingleBatch == Preprocessed(IngestedBuffer, 0)

\* C32 as stated: for any way of splitting a sample stream into successive
\* preprocessData calls with samples ingested in between, the interpolated
\* x, y and the smoothed gx, gy of every retained sample equal those produced
\* by a single preprocessData call over the whole final buffer.
IncrementalEqualsBatch ==
    (Len(data) >= 2 /\ lastPreprocessIndex = Len(data)) =>
        \A i \in 1..Len(data) :
            /\ data[i].x = SingleBatch[i].x
            /\ data[i].y = SingleBatch[i].y
            /\ data[i].gx = SingleBatch[i].gx
            /\ data[i].gy = SingleBatch[i].gy

\* --------------------------------------------------- detection and batches

\* The detector state of a freshly constructed manager.
FreshDetector ==
    [data |-> <<>>, lastPosPeakTime |-> 0, lastTriggerTime |-> 0,
     firstContentTime |-> Null, maxLineIndexReached |-> -1, pangLog |-> <<>>,
     lastRSTime |-> 0, lastRSLine |-> -1, pangCountInPara |-> Undefined,
     timers |-> <<>>, pendingReturnSweep |-> NoPending("undefined"),
     allFired |-> <<>>, failed |-> FALSE, det |-> NoDet("skipped")]

\* Sample i of the buffer as processGaze built it.
AsIngested(i) ==
    [data[i] EXCEPT !.gx = Undefined, !.gy = Undefined,
                    !.vx = Undefined, !.vy = Undefined,
                    !.didFire = FALSE, !.rsTriggerType = "", !.rsState = ""]

\* The detector state after the first n samples of the buffer have been
\* ingested with no preprocessData call in between.
RECURSIVE RealTimeOnly(_)
RealTimeOnly(n) ==
    IF n = 0 THEN FreshDetector
    ELSE LET e == AsIngested(n)
         IN  CHOOSE res \in
               {detectRealtimeReturnSweep(
                    ResolvePending(
                        [prev EXCEPT
                            !.data = WithVelocity(Append(@, e)),
                            !.firstContentTime = ContentStart(@, e)],
                        e, FALSE),
                    FALSE) : prev \in {RealTimeOnly(n - 1)}} : TRUE

\* The times of the events of a log.
FireTimes(log) == {log[k].t : k \in 1..Len(log)}

\* C33 as stated: for a given sample stream and setContext sequence, which
\* samples fire events does not depend on whether or when preprocessData
\* runs between samples.
FiringIgnoresBatches ==
    FireTimes(allFired) = FireTimes(RealTimeOnly(Len(data)).allFired)

\* C34 as stated: an event fires only if a position-peak candidate was
\* actually recorded after the later of the last fired event, the last reset
\* and the last resetTriggers, and less than 600 ms before the valley sample;
\* the cleared value 0 of lastPosPeakTime is never treated as a peak.  (A
\* recorded peak time is the time of a fourth or later sample and so is not
\* 0; the fire, reset and resetTriggers clear the field to 0.)
FiredAfterRecordedPeak ==
    [][det'.result = "fired" =>
         /\ det'.peak \/ lastPosPeakTime # 0
         /\ Abs(det'.sincePeak) < CASCADE_WINDOW_MS]_vars

\* The part of C34 that holds: the valley sample of an event is less than
\* 600 ms after the value of lastPosPeakTime.
FiredWithinWindowOfField ==
    [][det'.result = "fired" => Abs(det'.sincePeak) < CASCADE_WINDOW_MS]_vars

\* ------------------------------------------------------------ fault claims

\* No two events of the unit's log are for the same line.
OneEventPerLine ==
    \A i, j \in 1..Len(pangLog) : i < j => pangLog[i].line # pangLog[j].line

\* A step that appends an event to the log advances maxLineIndexReached
\* past the event's line and schedules the event's speed update.
LoggedEventGuarded ==
    Len(pangLog') > Len(pangLog) =>
        LET event == pangLog'[Len(pangLog')]
        IN  /\ maxLineIndexReached' > event.line
            /\ Len(timers') = Len(timers) + 1
            /\ timers'[Len(timers')] = [targetLine |-> event.line,
                                        now |-> event.t]

\* C35 as stated: if the visual-effect handler called during a fire raises,
\* the detector state stays consistent with the event log: whenever an event
\* for line L has been appended to the log, maxLineIndexReached has been
\* advanced and the speed update has been scheduled, so no second event for
\* the same line can be logged in that content unit.
RaisingHandlerKeepsLogConsistent ==
    /\ [][LoggedEventGuarded]_vars
    /\ []OneEventPerLine

\* The second half of C35 alone.
RaisingHandlerLogsLineOnce == []OneEventPerLine

\* ------------------------------------------------------------ clock claims

\* The detector call recorded in d met every condition of the cascade that
\* follows the two global gates.
QualifyingCascade(d, maxLine) ==
    /\ d.valley
    /\ WithinCascadeWindow(d.sincePeak)
    /\ HasLine(d.line)
    /\ ~IsStartLine(d.line)
    /\ ~MaxReachBlocks(d.line, maxLine)

\* C36 as stated: after a timestamp regression has reset the time origin, a
\* qualifying cascade is not rejected by the cooldown gate or the
\* content-start gate on account of lastTriggerTime or firstContentTime
\* values that were recorded on the old timeline.  (On one timeline a
\* recorded time is never later than the newest sample, so a recorded time
\* later than the newest sample is from the old timeline.)
StaleGatesNeverReject ==
    [][~(/\ QualifyingCascade(det', maxLineIndexReached)
         /\ \/ /\ det'.result = "content_gate"
               /\ Truthy(firstContentTime')
               /\ firstContentTime'.n > det'.t
               /\ ~CooldownBlocks(det'.t, lastTriggerTime)
            \/ /\ det'.result = "cooldown"
               /\ lastTriggerTime > det'.t)]_vars

\* ------------------------------------------------------- stale update claims

\* The scheduled update about to run belongs to an event that fired before
\* a reset or resetTriggers call that has happened since: such a call has
\* run (it makes pangCountInPara a number) and the event is not in the log
\* that the call emptied.
StaleUpdate ==
    /\ timers # <<>>
    /\ IsFinite(pangCountInPara)
    /\ \A k \in 1..Len(pangLog) :
          \/ pangLog[k].t # Head(timers).now
          \/ pangLog[k].line # Head(timers).targetLine

\* C37: a speed update scheduled by an event that fired before a reset or
\* resetTriggers call never adds to validWordSum or validTimeSum and never
\* appends to the speed log once that call has happened, given that samples
\* arrive in real time and the update runs about 100 ms after its event.
StaleUpdateAddsNothing ==
    [][(StaleUpdate /\ timers' = Tail(timers)) =>
          /\ validWordSum' = validWordSum
          /\ validTimeSum' = validTimeSum
          /\ wpmData' = wpmData]_vars

\* C37 witness: the update of an event for a line with words, not line 0,
\* is still scheduled after a reset or resetTriggers call has emptied the log
\* of its event.
StaleUpdateScheduled ==
    /\ StaleUpdate
    /\ Head(timers).targetLine > 0
    /\ Head(timers).targetLine < Len(RendererLines) - 1
    /\ pangLog = <<>>

\* ------------------------------------------------------- getFixations claims

\* d.type === 'Fixation' for the stored type, which is one of the numbers
\* 0, 1, 2 (TypeCode): strict equality of a number and a string is false
\* whatever their values.
NumberStrictEqualsString(n, str) == FALSE

\* this.data.filter(d => d.type === 'Fixation')
getFixations ==
    SelectSeq(data, LAMBDA d : NumberStrictEqualsString(d.type, "Fixation"))

\* The buffered samples that were ingested with movement state 0, in buffer
\* order: processGaze stores type 0 for exactly those.
IngestedAsFixation == SelectSeq(data, LAMBDA d : d.type = TypeCode(0))

\* C38: getFixations returns exactly the buffered samples that were ingested
\* with movement state 0 (fixation), in buffer order.
FixationsAreStateZeroSamples == getFixations = IngestedAsFixation

\* getFixations returns no sample, whatever the buffer holds.
FixationsAlwaysEmpty == getFixations = <<>>

\* A sample ingested with movement state 0 is in the buffer next to one
\* ingested with another state.
FixationAndSaccadeBuffered ==
    /\ IngestedAsFixation # <<>>
    /\ Len(IngestedAsFixation) < Len(data)

\* ------------------------------------------------------- calibration claims

\* The calibration run is over: the SDK has called the finish callback and
\* no timer is pending.
RunOver == calibration.sdkFinished /\ calibration.pending = {}

\* C39: onCalibrationFinish is invoked exactly once per calibration run, for
\* every interleaving of the progress callback's 700 ms watchdog and 5 s
\* safety timers, the finish callback's 2 s delay and finishSequence: never
\* more than once, and once when the run is over.
FinishInvokedExactlyOnce ==
    /\ calibration.finishCalls <= 1
    /\ RunOver => calibration.finishCalls = 1

\* onCalibrationFinish is invoked at least once by the end of a run and at
\* most once for the finish callback and once for each point.
FinishInvokedOnceOrTwice ==
    /\ calibration.finishCalls <= MaxPoints + 1
    /\ RunOver => calibration.finishCalls >= 1

\* The watchdog is pending when the finish callback has started its delay.
WatchdogPendingWhileFinishing ==
    /\ calibration.isFinishing
    /\ \E t \in calibration.pending : t.kind = "watchdog"
    /\ \E t \in calibration.pending : t.kind = "finish"

============================================================================
